---- MODULE Spec2Model ----
(***************************************************************************)
(* A model of the layered DRG-PoRep engine of rust-fil-proofs:             *)
(*   - the Fr32 padding codec            (storage-proofs/src/io/fr32.rs)   *)
(*   - the ZigZag graph and its cache    (storage-proofs/src/zigzag_graph) *)
(*   - the layered replicate / extract   (storage-proofs/src/layered_...)  *)
(*   - seal / verify_seal / unseal       (filecoin-proofs/src/api)         *)
(*   - the Fr32Writer                    (storage-proofs/src/io/fr32.rs)   *)
(*   - challenge derivation, threads on the parents cache, and the         *)
(*     parameter cache file under concurrent seal and verify_seal          *)
(*   - the layered prove / verify        (storage-proofs/src/layered_...)  *)
(*   - repeated seals on one parameter cache, and write_data on the        *)
(*     sealed file                       (filecoin-proofs/src/api)         *)
(* Each part has its own specification over its own variables; the         *)
(* variables of the other parts stay at their idle value.                  *)
(***************************************************************************)
EXTENDS Integers, Sequences, FiniteSets, TLC

VARIABLES
    \* ---- codec (fr32.rs) ----
    c_src,        \* the caller's bytes
    c_pc,         \* "new" | "padded" | "unpadded"
    c_padded,     \* the sink of write_padded
    c_padWritten, \* the count write_padded returned
    c_req,        \* the (offset, len) range the caller asked write_unpadded for
    c_out,        \* the sink of write_unpadded
    c_outWritten, \* the count write_unpadded returned
    \* ---- ZigZag graph (zigzag_graph.rs) ----
    g_graph,      \* the graph new_zigzag built (forward)
    g_handles,    \* the directions (reversed flags) of the graphs made from it
    g_cache,      \* the parents cache they share: <<forward, reversed>>
    g_last,       \* the last call and what it returned
    g_called,     \* the <<reversed, node>> whose expanded parents were asked for
    \* ---- layered PoRep (layered_drgporep.rs) ----
    l_pp,         \* the layered public parameters
    l_rid,        \* replica_id
    l_data,       \* the data buffer handed to replicate
    l_pc,         \* "idle", "new", "replicated", "extracted"
    l_rep,        \* what replicate returned: buffer, taus, auxs, directions
    l_ext,        \* what extract_all returned: buffer, directions
    l_tauIn,      \* the taus last handed to simplify_tau
    l_tau,        \* what simplify_tau returned for them
    \* ---- seal API (internal.rs, disk_backed_storage.rs) ----
    \* (a seed is what new_seed() returned to the call's setup_params)
    a_store,      \* the configuration of the sector store
    a_pc,         \* "idle", "absent", "new", "staged", "sealed", "failed",
                  \* "aborted", "done"
    a_contents,   \* the bytes handed to write_unsealed
    a_staged,     \* the file of the staging sector access
    a_sealed,     \* the file of the sealed sector access
    a_cache,      \* the parameter cache: sector size -> Groth16 key
    a_seal,       \* the last seal: its ids, result and self verification
    a_verify,     \* the last verify_seal and its result
    a_unseal,     \* the last get_unsealed(_range): range, result, output file
    a_ffi,        \* the last API call: its outcome and what the caller was handed
    a_out,        \* the caller's out-parameters: comm_r, comm_d, proof, count
    \* ---- challenge derivation (internal.rs) ----
    d_in,         \* the commitments of a sector and its size
    d_out,        \* the challenges seal and verify_seal derived from them
    \* ---- threads on one parents cache (zigzag_graph.rs) ----
    t_graph,      \* the graph new_zigzag built (forward)
    t_cache,      \* the parents cache that it, its clones and zigzags share
    t_thr,        \* per thread: its call of expanded_parents and where it is
    \* ---- the parameter cache file of one sector size (parameter_cache) ----
    k_file,       \* the file: whether it exists, and its chunks
    k_lock,       \* the file lock: the writer holding it (0: none), the readers
    k_proc,       \* per process: where its write or read is, and what it read
    \* ---- Fr32Writer (fr32.rs) ----
    w_src,        \* the bytes the caller has to write
    w_pos,        \* how many of them it has handed to write so far
    w_calls,      \* the number of write calls so far
    w_writer,     \* the Fr32Writer: prefix, prefix_size, bits_needed, inner
    w_pc,         \* "idle", "open", "finished", "closed"
    w_fin,        \* the finish calls: prefix_size before, count, bytes emitted
    \* ---- layered proofs (layered_drgporep.rs) ----
    p_pp,         \* the layered public parameters
    p_in,         \* the prover's inputs: replica_id, data, challenges
    p_pc,         \* "idle", "new", "replicated", "proved", "verified", "done"
    p_rep,        \* what replicate returned
    p_proof,      \* what prove returned
    p_ver,        \* the verify call: its proof, public tau and result
    p_again,      \* a second verify call on the same proof
    \* ---- several seals on one store (internal.rs) ----
    s_store,      \* the configuration of the sector store
    s_cache,      \* the parameter cache
    s_seals,      \* the seal calls so far: seed and result
    s_writes,     \* the number of write_params_to_cache calls so far
    s_verify,     \* the verify_seal call: which seal's proof, seed, result
    s_pc,         \* "idle", "open", "done"
    \* ---- write_data (internal.rs) ----
    f_before,     \* the file at out_path before the call
    f_data,       \* the data to write
    f_file,       \* the file at out_path
    f_pending,    \* the bytes in the BufWriter that the file has not got yet
    f_pc          \* "idle", "called", "created", "buffered", "returned",
                  \* "stopped"

codecVars == <<c_src, c_pc, c_padded, c_padWritten, c_req, c_out, c_outWritten>>

graphVars == <<g_graph, g_handles, g_cache, g_last, g_called>>

layerVars == <<l_pp, l_rid, l_data, l_pc, l_rep, l_ext, l_tauIn, l_tau>>

apiVars == <<a_store, a_pc, a_contents, a_staged, a_sealed, a_cache, a_seal,
             a_verify, a_unseal, a_ffi, a_out>>

challVars == <<d_in, d_out>>

threadVars == <<t_graph, t_cache, t_thr>>

paramVars == <<k_file, k_lock, k_proc>>

writerVars == <<w_src, w_pos, w_calls, w_writer, w_pc, w_fin>>

proofVars == <<p_pp, p_in, p_pc, p_rep, p_proof, p_ver, p_again>>

resealVars == <<s_store, s_cache, s_seals, s_writes, s_verify, s_pc>>

fileVars == <<f_before, f_data, f_file, f_pending, f_pc>>

moreVars ==
    <<challVars, threadVars, paramVars, writerVars, proofVars, resealVars,
      fileVars>>

vars == <<codecVars, graphVars, layerVars, apiVars, moreVars>>

\* what the operations of each part leave alone
notCodec == <<graphVars, layerVars, apiVars, moreVars>>

notGraph == <<codecVars, layerVars, apiVars, moreVars>>

notLayers == <<codecVars, graphVars, apiVars, moreVars>>

notApi == <<codecVars, graphVars, layerVars, moreVars>>

oldVars == <<codecVars, graphVars, layerVars, apiVars>>

notChall ==
    <<oldVars, threadVars, paramVars, writerVars, proofVars, resealVars,
      fileVars>>

notThreads ==
    <<oldVars, challVars, paramVars, writerVars, proofVars, resealVars,
      fileVars>>

notParams ==
    <<oldVars, challVars, threadVars, writerVars, proofVars, resealVars,
      fileVars>>

notWriter ==
    <<oldVars, challVars, threadVars, paramVars, proofVars, resealVars,
      fileVars>>

notProofs ==
    <<oldVars, challVars, threadVars, paramVars, writerVars, resealVars,
      fileVars>>

notReseal ==
    <<oldVars, challVars, threadVars, paramVars, writerVars, proofVars,
      fileVars>>

notFile ==
    <<oldVars, challVars, threadVars, paramVars, writerVars, proofVars,
      resealVars>>

----------------------------------------------------------------------------
(* Generic helpers                                                         *)

Min(a, b) == IF a < b THEN a ELSE b

Max(a, b) == IF a > b THEN a ELSE b

\* the element of a one-element set: The({F(v) : v \in {e}}) is F(e) with e
\* evaluated once
The(S) == CHOOSE x \in S : TRUE

\* ceil(a / b) for b > 0
CeilDiv(a, b) == (a + b - 1) \div b

RECURSIVE Concat(_)
\* the concatenation of a sequence of sequences
Concat(ss) ==
    IF ss = <<>> THEN <<>>
    ELSE IF Len(ss) = 1 THEN ss[1]
    ELSE Concat(SubSeq(ss, 1, Len(ss) \div 2))
            \o Concat(SubSeq(ss, (Len(ss) \div 2) + 1, Len(ss)))

\* the first k elements of s (Iterator::take)
Take(s, k) == SubSeq(s, 1, Min(k, Len(s)))

----------------------------------------------------------------------------
(* The Fr32 codec: fr32.rs                                                 *)

FR_UNPADDED_BITS == 254

FR_PADDED_BITS == 256

\* BitVec::<LittleEndian, u8>::from(bytes): bit 8k+j of the stream is bit j
\* (least significant first) of byte k.
BitVecFrom(bytes) ==
    [i \in 1..(8 * Len(bytes)) |->
        (bytes[((i - 1) \div 8) + 1] \div (2 ^ ((i - 1) % 8))) % 2]

\* Itertools::chunks(size): consecutive runs of size elements, the last one
\* possibly shorter; no chunk for an empty stream.
Chunks(s, size) ==
    [c \in 1..CeilDiv(Len(s), size) |->
        SubSeq(s, (c - 1) * size + 1, Min(c * size, Len(s)))]

BitAt(bits, i) == IF i <= Len(bits) THEN bits[i] ELSE 0

\* BitVec::into_boxed_slice: the bits packed eight to a byte, least
\* significant first; the unused bits of the last byte are zero.
IntoBoxedSlice(bits) ==
    [k \in 1..CeilDiv(Len(bits), 8) |->
        LET b == 8 * (k - 1)
        IN  BitAt(bits, b + 1) + 2 * BitAt(bits, b + 2) + 4 * BitAt(bits, b + 3)
            + 8 * BitAt(bits, b + 4) + 16 * BitAt(bits, b + 5)
            + 32 * BitAt(bits, b + 6) + 64 * BitAt(bits, b + 7)
            + 128 * BitAt(bits, b + 8)]

\* fr32.rs:27-29  while bits.len() < FR_PADDED_BITS { bits.push(false) }
PadChunk(bits) ==
    bits \o [i \in 1..(FR_PADDED_BITS - Len(bits)) |-> 0]

\* write_padded that cuts the source into chunks of FR_PADDED_BITS: the
\* frames carry 256 source bits each
WritePaddedOut_wide_chunks(source) ==
    LET chunks == Chunks(BitVecFrom(source), FR_PADDED_BITS)
    IN  Concat([c \in DOMAIN chunks |-> IntoBoxedSlice(PadChunk(chunks[c]))])

\* write_padded(source, target): what is written to target.
\* Every chunk of 254 source bits is padded to 256 bits and written out.
WritePaddedOut(source) ==
    LET chunks == Chunks(BitVecFrom(source), FR_UNPADDED_BITS)
    IN  Concat([c \in DOMAIN chunks |-> IntoBoxedSlice(PadChunk(chunks[c]))])

\* write_padded(source, target): its return value, the sum of out.len()
write_padded(source) ==
    LET out == WritePaddedOut(source)
    IN  [out |-> out, written |-> Len(out)]

\* fr32.rs:52-55: the first 254 bits of every 256-bit chunk, regrouped by 8
UnpaddedChunks(source) ==
    LET padded_chunks == Chunks(BitVecFrom(source), FR_PADDED_BITS)
    IN  Chunks(Concat([c \in DOMAIN padded_chunks |->
                          Take(padded_chunks[c], FR_UNPADDED_BITS)]), 8)

\* write_unpadded(source, target, original_len): fr32.rs:39-70.  The
\* function has no offset parameter: it emits the first original_len bytes of
\* the unpadded stream.
write_unpadded(source, original_len) ==
    LET unpadded_chunks == UnpaddedChunks(source)
        slices == Take([c \in DOMAIN unpadded_chunks |->
                           IntoBoxedSlice(unpadded_chunks[c])], original_len)
        out == Concat(slices)
    IN  [out |-> out, written |-> Len(out)]

----------------------------------------------------------------------------
(* Feistel permutation (crypto::feistel, not among the sources): a         *)
(* balanced Feistel network over the next power of four, walked in cycles  *)
(* until the value falls in [0, num_elements).                             *)

RECURSIVE BitXor(_, _)
BitXor(a, b) ==
    IF a = 0 THEN b
    ELSE IF b = 0 THEN a
    ELSE ((a + b) % 2) + 2 * BitXor(a \div 2, b \div 2)

RECURSIVE Log4Ceil(_, _, _)
\* the least log4 >= 1 with 4^log4 >= num_elements
Log4Ceil(num_elements, next_pow4, log4) ==
    IF next_pow4 < num_elements
    THEN Log4Ceil(num_elements, next_pow4 * 4, log4 + 1)
    ELSE log4

\* feistel::precompute: the width in bits of each half
feistel_precompute(num_elements) == Log4Ceil(num_elements, 4, 1)

\* the round function: a keyed digest of the right half, cut to half_bits
feistel_round(right, key, half_bits) ==
    (31 * right + 17 * key + 7 * right * key
        + (((right + key) * (right + key)) \div 3)) % (2 ^ half_bits)

RECURSIVE feistel_encode_rounds(_, _, _, _)
feistel_encode_rounds(left, right, keys, half_bits) ==
    IF keys = <<>> THEN left * (2 ^ half_bits) + right
    ELSE feistel_encode_rounds(
             right, BitXor(left, feistel_round(right, Head(keys), half_bits)),
             Tail(keys), half_bits)

feistel_encode(index, keys, half_bits) ==
    feistel_encode_rounds(index \div (2 ^ half_bits), index % (2 ^ half_bits),
                          keys, half_bits)

RECURSIVE feistel_decode_rounds(_, _, _, _)
\* the rounds undone, last key first
feistel_decode_rounds(left, right, keys, half_bits) ==
    IF keys = <<>> THEN left * (2 ^ half_bits) + right
    ELSE feistel_decode_rounds(
             BitXor(right, feistel_round(left, keys[Len(keys)], half_bits)), left,
             SubSeq(keys, 1, Len(keys) - 1), half_bits)

feistel_decode(index, keys, half_bits) ==
    feistel_decode_rounds(index \div (2 ^ half_bits), index % (2 ^ half_bits),
                          keys, half_bits)

RECURSIVE feistel_walk_encode(_, _, _, _)
feistel_walk_encode(num_elements, u, keys, half_bits) ==
    IF u >= num_elements
    THEN feistel_walk_encode(num_elements, feistel_encode(u, keys, half_bits),
                             keys, half_bits)
    ELSE u

RECURSIVE feistel_walk_decode(_, _, _, _)
feistel_walk_decode(num_elements, u, keys, half_bits) ==
    IF u >= num_elements
    THEN feistel_walk_decode(num_elements, feistel_decode(u, keys, half_bits),
                             keys, half_bits)
    ELSE u

feistel_permute(num_elements, index, keys, half_bits) ==
    feistel_walk_encode(num_elements, feistel_encode(index, keys, half_bits),
                        keys, half_bits)

feistel_invert_permute(num_elements, index, keys, half_bits) ==
    feistel_walk_decode(num_elements, feistel_decode(index, keys, half_bits),
                        keys, half_bits)

----------------------------------------------------------------------------
(* Bucket graph (drgraph::BucketGraph, not among the sources): the base    *)
(* DRG.  parents(node) are base_degree indices strictly below node, each   *)
(* drawn from an exponentially sized bucket by a generator seeded with     *)
(* (seed, node); nodes 0 and 1 have node 0 for every parent.               *)

RECURSIVE FloorLog2(_)
FloorLog2(x) == IF x <= 1 THEN 0 ELSE 1 + FloorLog2(x \div 2)

\* the draw-th value of the generator seeded with (seed, node), for meta node k
RngDraw(seed, node, k, draw) ==
    (((seed + 2) * (node + 1) * (node + k + 2)) \div 3)
        + (seed + 1) * (5 * draw + k) + seed

RECURSIVE InsertSorted(_, _)
InsertSorted(s, x) ==
    IF s = <<>> THEN <<x>>
    ELSE IF x <= Head(s) THEN <<x>> \o s
    ELSE <<Head(s)>> \o InsertSorted(Tail(s), x)

RECURSIVE SortAscending(_)
\* Vec::sort: ascending
SortAscending(s) ==
    IF s = <<>> THEN <<>>
    ELSE The({InsertSorted(rest, Head(s)) : rest \in {SortAscending(Tail(s))}})

BucketParent(seed, m, node, k) ==
    LET logi == FloorLog2(node * m)
        j == RngDraw(seed, node, k, 0) % logi
        jj == Min(node * m + k, 2 ^ (j + 1))
        lo == Max(jj \div 2, 2)
        back_dist == lo + (RngDraw(seed, node, k, 1) % (jj + 1 - lo))
        out == (node * m + k - back_dist) \div m
    IN  IF out = node THEN node - 1 ELSE out

BucketParents(seed, m, node) ==
    IF node <= 1 THEN [k \in 1..m |-> 0]
    ELSE SortAscending([k \in 1..m |-> BucketParent(seed, m, node, k - 1)])

----------------------------------------------------------------------------
(* The ZigZag graph: zigzag_graph.rs                                       *)

MAX_CACHE_SIZE == 10

\* mem::size_of::<usize>()
IndexSize == 8

\* zigzag_graph.rs:240
feistel_keys == <<1, 2, 3, 4>>

\* ZigZagGraph::new: the graph that new_zigzag returns (forward), without
\* its cache.  cache_entries is the smaller of nodes and the budget.
ZigZagGraphNew(nodes, base_degree, expansion_degree, seed) ==
    LET size_bytes == MAX_CACHE_SIZE * (2 ^ 20)
        size_per_direction == size_bytes \div 2
        cache_max_entries == size_per_direction \div (expansion_degree * IndexSize)
    IN  [nodes |-> nodes,
         base_degree |-> base_degree,
         expansion_degree |-> expansion_degree,
         seed |-> seed,
         reversed |-> FALSE,
         feistel_precomputed |-> feistel_precompute(expansion_degree * nodes),
         cache_entries |-> IF nodes > cache_max_entries
                           THEN cache_max_entries ELSE nodes]

\* ZigZagGraph::new: the two empty parent caches, forward then reversed
NewParentsCache == <<[x \in {} |-> <<>>], [x \in {} |-> <<>>]>>

\* ZigZag::zigzag: a clone with reversed toggled (the cache stays shared)
zigzag(g) == [g EXCEPT !.reversed = ~g.reversed]

\* Graph::size
size(g) == g.nodes

\* Graph::degree
degree(g) == g.base_degree + g.expansion_degree

\* Graph::forward
forward(g) == ~g.reversed

\* real_index that never flips: the reversed graph indexes like the forward
real_index_never_flipped(g, i) == i

\* ZigZag::real_index
real_index(g, i) == IF g.reversed THEN (size(g) - 1) - i ELSE i

\* correspondent that permutes the same way in both directions: the
\* reversed graph does not invert the permutation
correspondent_never_inverted(g, node, i) ==
    LET a == node * g.expansion_degree + i
        transformed == feistel_permute(size(g) * g.expansion_degree, a,
                                       feistel_keys, g.feistel_precomputed)
    IN  transformed \div g.expansion_degree

\* ZigZagGraph::correspondent
correspondent(g, node, i) ==
    LET a == node * g.expansion_degree + i
        transformed ==
            IF g.reversed
            THEN feistel_invert_permute(size(g) * g.expansion_degree, a,
                                        feistel_keys, g.feistel_precomputed)
            ELSE feistel_permute(size(g) * g.expansion_degree, a,
                                 feistel_keys, g.feistel_precomputed)
    IN  transformed \div g.expansion_degree

\* get_cache_index, were there one cache for both directions
get_cache_index_one_cache(g) == 1

\* ZigZagGraph::get_cache_index (1-based here)
get_cache_index(g) == IF forward(g) THEN 1 ELSE 2

None == [some |-> FALSE]

Some(v) == [some |-> TRUE, value |-> v]

\* ZigZagGraph::read_parents_cache
read_parents_cache(g, cache, node) ==
    IF node > g.cache_entries THEN None
    ELSE LET parents_cache == cache[get_cache_index(g)]
         IN  IF node \in DOMAIN parents_cache
             THEN Some(parents_cache[node]) ELSE None

\* ZigZagGraph::write_parents_cache: the cache afterwards, and whether the
\* debug assertion (no older value under the key) held
write_parents_cache(g, cache, node, parents) ==
    IF node > g.cache_entries THEN [cache |-> cache, asserted |-> TRUE]
    ELSE LET idx == get_cache_index(g)
             parents_cache == cache[idx]
             inserted == [x \in (DOMAIN parents_cache) \cup {node} |->
                             IF x = node THEN parents ELSE parents_cache[x]]
         IN  [cache |-> [cache EXCEPT ![idx] = inserted],
              asserted |-> node \notin DOMAIN parents_cache]

RECURSIVE FilterCorrespondents(_, _, _)
\* zigzag_graph.rs:364-379: the correspondents of node for i = from..E-1 that
\* lie on the parent side of node
FilterCorrespondents(g, node, from) ==
    IF from >= g.expansion_degree THEN <<>>
    ELSE LET other == correspondent(g, node, from)
             keep == IF g.reversed THEN other > node ELSE other < node
         IN  (IF keep THEN <<other>> ELSE <<>>)
                 \o FilterCorrespondents(g, node, from + 1)

\* ZigZag::expanded_parents: the value returned, the cache afterwards and
\* whether the cache's write assertion held
expanded_parents(g, cache, node) ==
    The({IF cached.some
         THEN [parents |-> cached.value, cache |-> cache, asserted |-> TRUE,
               hit |-> TRUE]
         ELSE The({The({[parents |-> computed, cache |-> w.cache,
                         asserted |-> w.asserted, hit |-> FALSE] :
                           w \in {write_parents_cache(g, cache, node, computed)}}) :
                      computed \in {FilterCorrespondents(g, node, 0)}}) :
            cached \in {read_parents_cache(g, cache, node)}})

\* padding that is one entry short
Padding_one_short(g, have) ==
    [i \in 1..(degree(g) - have - 1) |-> IF g.reversed THEN size(g) - 1 ELSE 0]

\* zigzag_graph.rs:201-207: the padding appended to parents
Padding(g, have) ==
    [i \in 1..(degree(g) - have) |-> IF g.reversed THEN size(g) - 1 ELSE 0]

\* zigzag_graph.rs:183-192: the parents in the base graph of the real index
\* of raw_node, as indices of this graph
drg_parents(g, raw_node) ==
    The({[i \in DOMAIN base |-> real_index(g, base[i])] :
            base \in {BucketParents(g.seed, g.base_degree, real_index(g, raw_node))}})

\* Graph::parents of a ZigZag graph: the list returned, the cache afterwards,
\* and what went wrong: "underflow" (degree() - parents.len() below zero),
\* "degree" and "monotonic" (the two assertions), "cache" (the cache's), or
\* "ok"
parents(g, cache, raw_node) ==
    The({The({The({
        [parents |-> sorted,
         cache |-> ep.cache,
         status |-> IF ~ep.asserted THEN "cache"
                    ELSE IF Len(extended) > degree(g) THEN "underflow"
                    ELSE IF Len(sorted) # degree(g) THEN "degree"
                    ELSE IF ~(\A i \in DOMAIN sorted :
                                IF forward(g) THEN sorted[i] <= raw_node
                                ELSE sorted[i] >= raw_node) THEN "monotonic"
                    ELSE "ok"] :
            sorted \in {SortAscending(extended \o Padding(g, Len(extended)))}}) :
            extended \in {drg_parents(g, raw_node) \o ep.parents}}) :
            ep \in {expanded_parents(g, cache, raw_node)}})

----------------------------------------------------------------------------
(* Single-layer DRG-PoRep (drgporep, vde, sloth, the Merkle commitment:    *)
(* not among the sources).  The sector is n slots of lambda bytes.  Field  *)
(* elements are taken bytewise: addition and subtraction are modulo 256 in *)
(* every byte, the key derivation is a keyed digest of its input, and a    *)
(* Merkle root is a digest of the leaves.                                  *)

\* the parents of node in a graph whose cache is fresh: the cache only
\* memoizes expanded_parents
graph_parents(g, node) == parents(g, NewParentsCache, node).parents

\* drgporep::PublicParams
DrgPublicParams(graph, lambda, sloth_iter) ==
    [graph |-> graph, lambda |-> lambda, sloth_iter |-> sloth_iter]

\* data_at_node: the slot of node
data_at_node(data, node, lambda) ==
    SubSeq(data, node * lambda + 1, (node + 1) * lambda)

\* byte b of replica_id, repeated when lambda exceeds its length
RidByte(replica_id, b) == replica_id[((b - 1) % Len(replica_id)) + 1]

RECURSIVE ParentsDigest(_, _, _, _, _)
\* what the first j parents' slots add to byte b of the key
ParentsDigest(node_parents, data, lambda, b, j) ==
    IF j = 0 THEN 0
    ELSE (2 * j + 1) * data_at_node(data, node_parents[j], lambda)[b] + 7 * j
            + ParentsDigest(node_parents, data, lambda, b, j - 1)

\* create_key: key = H(replica_id || parents' slots); a node that is its own
\* first parent (the self loop of the first node in graph order) hashes
\* replica_id alone
create_key(replica_id, node, node_parents, data, lambda) ==
    [b \in 1..lambda |->
        IF node_parents[1] = node
        THEN (5 * RidByte(replica_id, b) + 11 * b + 1) % 256
        ELSE (5 * RidByte(replica_id, b) + 11 * b + 1
                 + ParentsDigest(node_parents, data, lambda, b, Len(node_parents)))
                 % 256]

RECURSIVE sloth_byte(_, _)
\* sloth_iter rounds of the delay function on one byte of the key
sloth_byte(k, iter) == IF iter = 0 THEN k ELSE sloth_byte((3 * k + 1) % 256, iter - 1)

\* enc_key: the key after sloth_iter iterations of Sloth
enc_key(key, sloth_iter) == [b \in DOMAIN key |-> sloth_byte(key[b], sloth_iter)]

\* data with the slot of node replaced
WithSlot(data, node, lambda, slot) ==
    [i \in DOMAIN data |->
        IF i > node * lambda /\ i <= (node + 1) * lambda
        THEN slot[i - node * lambda] ELSE data[i]]

\* the node encoded at step k (from 0) of a traversal in graph order
NodeAt(graph, k) == IF forward(graph) THEN k ELSE (size(graph) - k) - 1

\* the key of node: create_key on its parents, then Sloth
node_key(pp, replica_id, data, node) ==
    The({enc_key(create_key(replica_id, node, node_parents, data, pp.lambda),
                 pp.sloth_iter) :
            node_parents \in {graph_parents(pp.graph, node)}})

\* one step of vde::encode: data with the slot of node encoded in place
encode_node(pp, replica_id, data, node) ==
    The({WithSlot(data, node, pp.lambda,
                  [b \in 1..pp.lambda |->
                      (data_at_node(data, node, pp.lambda)[b] + key[b]) % 256]) :
            key \in {node_key(pp, replica_id, data, node)}})

RECURSIVE vde_encode(_, _, _, _)
\* vde::encode: the nodes from step k on encoded in place, in graph order
vde_encode(pp, replica_id, data, k) ==
    IF k >= size(pp.graph) THEN data
    ELSE The({vde_encode(pp, replica_id, next, k + 1) :
                next \in {encode_node(pp, replica_id, data, NodeAt(pp.graph, k))}})

\* vde::decode_block: the slot of node decoded from the encoded data
decode_block(pp, replica_id, data, node) ==
    The({[b \in 1..pp.lambda |->
             (data_at_node(data, node, pp.lambda)[b] + 256 - key[b]) % 256] :
            key \in {node_key(pp, replica_id, data, node)}})

\* vde::decode: every node decoded from the encoded data
vde_decode(pp, replica_id, data) ==
    Concat([k \in 1..size(pp.graph) |-> decode_block(pp, replica_id, data, k - 1)])

\* the leaves are hashed this many bytes at a time
LeafBytes == 16

RECURSIVE DigestFrom(_, _, _)
\* the digest of bytes i..last of data
DigestFrom(data, i, last) ==
    IF i > last THEN 1
    ELSE ((7 * i + 1) * data[i] + 31 * DigestFrom(data, i + 1, last)) % 65521

RECURSIVE RootFrom(_, _)
\* the digest of the leaves from byte i on
RootFrom(data, i) ==
    IF i > Len(data) THEN 1
    ELSE (DigestFrom(data, i, Min(i + LeafBytes - 1, Len(data)))
            + 131 * RootFrom(data, i + LeafBytes)) % 65521

\* the Merkle root of the slots of data
merkle_root(data) == RootFrom(data, 1)

\* porep::Tau
Tau(comm_r, comm_d) == [comm_r |-> comm_r, comm_d |-> comm_d]

\* porep::ProverAux: the two trees, by their leaves
ProverAux(tree_d, tree_r) == [tree_d |-> tree_d, tree_r |-> tree_r]

\* DrgPoRep::replicate: the data encoded in place, tau and aux
drg_replicate(pp, replica_id, data) ==
    The({[data |-> replica,
          tau |-> Tau(merkle_root(replica), merkle_root(data)),
          aux |-> ProverAux(data, replica)] :
            replica \in {vde_encode(pp, replica_id, data, 0)}})

\* DrgPoRep::extract_all
drg_extract_all(pp, replica_id, data) == vde_decode(pp, replica_id, data)

----------------------------------------------------------------------------
(* The layered PoRep driver: layered_drgporep.rs                           *)

\* layered_drgporep::PublicParams
LayeredPublicParams(drgpp, layers) ==
    [drg_porep_public_params |-> drgpp, layers |-> layers]

\* Layers::transform of ZigZagDrgPoRep (not among the sources): the ZigZag
\* toggle of the graph, whatever layer and layers are
transform(pp, layer, layers) == [pp EXCEPT !.graph = zigzag(pp.graph)]

\* Layers::invert_transform of ZigZagDrgPoRep (not among the sources): the
\* toggle again, so that invert_transform(transform(pp)) = pp
invert_transform(pp, layer, layers) == [pp EXCEPT !.graph = zigzag(pp.graph)]

\* simplify_tau with comm_r taken from the first layer too
simplify_tau_first_layer(taus) == Tau(taus[1].comm_r, taus[1].comm_d)

\* simplify_tau
simplify_tau(taus) == Tau(taus[Len(taus)].comm_r, taus[1].comm_d)

RECURSIVE transform_and_replicate_layers(_, _, _, _, _, _, _)
\* Layers::transform_and_replicate_layers (layers > 0 is asserted): the
\* buffer, the taus and the auxs afterwards, the graph direction (reversed
\* flag) each layer was replicated with, and the <<layer, layers>> each call
\* of transform was given
transform_and_replicate_layers(drgpp, layer, layers, replica_id, data, taus, auxs) ==
    The({IF layers # 1
         THEN [transform_and_replicate_layers(
                   transform(drgpp, layer, layers), layer + 1, layers - 1,
                   replica_id, r.data, Append(taus, r.tau), Append(auxs, r.aux))
               EXCEPT !.directions = <<drgpp.graph.reversed>> \o @,
                      !.transforms = <<(<<layer, layers>>)>> \o @]
         ELSE [data |-> r.data, taus |-> Append(taus, r.tau),
               auxs |-> Append(auxs, r.aux),
               directions |-> <<drgpp.graph.reversed>>,
               transforms |-> <<>>] :
            r \in {drg_replicate(drgpp, replica_id, data)}})

RECURSIVE extract_and_invert_transform_layers(_, _, _, _, _)
\* Layers::extract_and_invert_transform_layers (layers > 0 is asserted): the
\* buffer afterwards and the graph direction each extract step used
extract_and_invert_transform_layers(drgpp, layer, layers, replica_id, data) ==
    The({The({IF layers # 1
              THEN [extract_and_invert_transform_layers(
                        inverted, layer + 1, layers - 1, replica_id, res)
                    EXCEPT !.directions = <<inverted.graph.reversed>> \o @]
              ELSE [data |-> res, directions |-> <<inverted.graph.reversed>>] :
                 res \in {drg_extract_all(inverted, replica_id, data)}}) :
            inverted \in {invert_transform(drgpp, layer, layers)}})

\* PoRep::replicate of the layered scheme
replicate(pp, replica_id, data) ==
    transform_and_replicate_layers(pp.drg_porep_public_params, 0, pp.layers,
                                   replica_id, data, <<>>, <<>>)

\* PoRep::extract_all of the layered scheme
extract_all(pp, replica_id, data) ==
    extract_and_invert_transform_layers(pp.drg_porep_public_params, 0, pp.layers,
                                        replica_id, data)

----------------------------------------------------------------------------
(* Codec inputs                                                            *)

\* the longest input: long enough to span three frames
MaxBytes == 66

\* the largest offset a caller asks for
MaxOffset == 2

\* the byte patterns inputs are drawn from
Patterns == {"ones", "count", "mix"}

PatternByte(pat, i) ==
    CASE pat = "ones"  -> 255
      [] pat = "count" -> IF i % 32 = 0 THEN 255 ELSE i % 32
      [] OTHER         -> (37 * i + 11) % 256

Bytes(pat, len) == [i \in 1..len |-> PatternByte(pat, i)]

CodecIdle ==
    /\ c_src = <<>>
    /\ c_pc = "idle"
    /\ c_padded = <<>>
    /\ c_padWritten = 0
    /\ c_req = [offset |-> 0, len |-> 0]
    /\ c_out = <<>>
    /\ c_outWritten = 0

CodecStart ==
    /\ c_src \in {Bytes(pat, len) : pat \in Patterns, len \in 0..MaxBytes}
    /\ c_pc = "new"
    /\ c_padded = <<>>
    /\ c_padWritten = 0
    /\ c_req = [offset |-> 0, len |-> 0]
    /\ c_out = <<>>
    /\ c_outWritten = 0

\* write_padded(&data, &mut padded)
WritePadded ==
    /\ c_pc = "new"
    /\ LET r == write_padded(c_src)
       IN  /\ c_padded' = r.out
           /\ c_padWritten' = r.written
    /\ c_pc' = "padded"
    /\ UNCHANGED <<c_src, c_req, c_out, c_outWritten>>
    /\ UNCHANGED notCodec

\* A caller asks for the range (offset, len) of the unpadded data, as
\* get_unsealed_range does (internal.rs:318-323); write_unpadded of
\* fr32.rs takes the length alone.
WriteUnpadded(offset, len) ==
    /\ c_pc = "padded"
    /\ offset + len <= Len(c_src)
    /\ LET r == write_unpadded(c_padded, len)
       IN  /\ c_out' = r.out
           /\ c_outWritten' = r.written
    /\ c_req' = [offset |-> offset, len |-> len]
    /\ c_pc' = "unpadded"
    /\ UNCHANGED <<c_src, c_padded, c_padWritten>>
    /\ UNCHANGED notCodec

\* the lengths asked for at an offset: none, one byte, half and all of
\* what follows the offset
Lens(offset) ==
    {len \in {0, 1, (Len(c_src) - offset) \div 2, Len(c_src) - offset} : len >= 0}

CodecNext ==
    \/ WritePadded
    \/ \E offset \in 0..MaxOffset : \E len \in Lens(offset) : WriteUnpadded(offset, len)

\* bit k (from 0) of a byte sequence read as a little-endian bit stream;
\* zero past its end
StreamBit(bytes, k) ==
    IF k < 8 * Len(bytes)
    THEN (bytes[(k \div 8) + 1] \div (2 ^ (k % 8))) % 2
    ELSE 0

\* C5: whenever write_unpadded has been asked for the range (offset, len) of
\* write_padded(b), with offset + len <= |b|, it has emitted exactly
\* b[offset..offset+len] and returned len.
C5_CodecRoundTrip ==
    c_pc = "unpadded" =>
        /\ c_out = SubSeq(c_src, c_req.offset + 1, c_req.offset + c_req.len)
        /\ c_outWritten = c_req.len

----------------------------------------------------------------------------
(* ZigZag graph: the graphs made from one new_zigzag and the calls on them *)

MaxNodes == 4

MaxBaseDegree == 2

MaxExpansionDegree == 2

\* the seeds a graph is built from are 0..NumSeeds-1
NumSeeds == 2

Seeds == 0..(NumSeeds - 1)

NoCall == [op |-> "new", reversed |-> FALSE, node |-> 0, parents |-> <<>>,
           expanded |-> <<>>, status |-> "ok"]

GraphIdle ==
    /\ g_graph = ZigZagGraphNew(1, 1, 1, 0)
    /\ g_handles = {}
    /\ g_cache = NewParentsCache
    /\ g_last = NoCall
    /\ g_called = {}

\* ZigZagBucketGraph::new_zigzag(nodes, base_degree, expansion_degree, seed)
GraphStart ==
    /\ g_graph \in {ZigZagGraphNew(n, m, e, sd) :
                       n \in 1..MaxNodes, m \in 1..MaxBaseDegree,
                       e \in 1..MaxExpansionDegree, sd \in Seeds}
    /\ g_handles = {FALSE}
    /\ g_cache = NewParentsCache
    /\ g_last = NoCall
    /\ g_called = {}

\* the graph object whose reversed flag is h
Handle(h) == [g_graph EXCEPT !.reversed = h]

\* g.zigzag() on one of the graphs: a clone of the other direction
Zigzag(h) ==
    /\ h \in g_handles
    /\ zigzag(Handle(h)).reversed \notin g_handles
    /\ g_handles' = g_handles \cup {zigzag(Handle(h)).reversed}
    /\ g_last' = [NoCall EXCEPT !.op = "zigzag",
                                !.reversed = zigzag(Handle(h)).reversed]
    /\ UNCHANGED <<g_graph, g_cache, g_called>>
    /\ UNCHANGED notGraph

\* g.parents(node) on one of the graphs
CallParents(h, node) ==
    /\ h \in g_handles
    /\ LET r == parents(Handle(h), g_cache, node)
       IN  /\ g_cache' = r.cache
           /\ g_last' = [op |-> "parents", reversed |-> h, node |-> node,
                         parents |-> r.parents,
                         expanded |-> expanded_parents(Handle(h), g_cache, node).parents,
                         status |-> r.status]
    /\ g_called' = g_called \cup {<<h, node>>}
    /\ UNCHANGED <<g_graph, g_handles>>
    /\ UNCHANGED notGraph

\* g.expanded_parents(node) on one of the graphs
CallExpandedParents(h, node) ==
    /\ h \in g_handles
    /\ LET r == expanded_parents(Handle(h), g_cache, node)
       IN  /\ g_cache' = r.cache
           /\ g_last' = [op |-> "expanded_parents", reversed |-> h, node |-> node,
                         parents |-> r.parents, expanded |-> r.parents,
                         status |-> IF r.asserted THEN "ok" ELSE "cache"]
    /\ g_called' = g_called \cup {<<h, node>>}
    /\ UNCHANGED <<g_graph, g_handles>>
    /\ UNCHANGED notGraph

GraphNext ==
    \/ \E h \in BOOLEAN : Zigzag(h)
    \/ \E h \in BOOLEAN, node \in 0..(size(g_graph) - 1) : CallParents(h, node)
    \/ \E h \in BOOLEAN, node \in 0..(size(g_graph) - 1) : CallExpandedParents(h, node)

IsIn(x, s) == \E k \in DOMAIN s : s[k] = x

Count(x, s) == Cardinality({k \in DOMAIN s : s[k] = x})

\* C7: every parent that parents(i) returned lies in [0, n); on a forward
\* graph it is below i for i > 0 and is 0 for i = 0; on a reversed graph it is
\* above i for i < n-1 and is n-1 for i = n-1; and the monotonicity assertion
\* of parents() did not fail.
C7_Monotonic ==
    g_last.op = "parents" =>
        LET n == size(g_graph)
            i == g_last.node
        IN  /\ g_last.status # "monotonic"
            /\ \A k \in DOMAIN g_last.parents :
                  LET q == g_last.parents[k]
                  IN  /\ q \in 0..(n - 1)
                      /\ ~g_last.reversed => IF i > 0 THEN q < i ELSE q = 0
                      /\ g_last.reversed => IF i < n - 1 THEN q > i ELSE q = n - 1

\* C7 witness: parents of an inner node of a reversed graph returned parents
\* that are not all the last node
C7_Witness ==
    /\ g_last.op = "parents"
    /\ g_last.reversed
    /\ g_last.node = 1
    /\ size(g_graph) = MaxNodes
    /\ \E k \in DOMAIN g_last.parents : g_last.parents[k] # size(g_graph) - 1

\* C8: parents(i) returned exactly base_degree + expansion_degree entries,
\* sorted ascending; the entries past the base and expanded parents are 0 on a
\* forward graph and n-1 on a reversed one; and neither the padding count
\* underflowed nor the length assertion failed.
C8_DegreeConstant ==
    g_last.op = "parents" =>
        LET d == g_graph.base_degree + g_graph.expansion_degree
            pad == IF g_last.reversed THEN size(g_graph) - 1 ELSE 0
        IN  /\ g_last.status \notin {"underflow", "degree"}
            /\ Len(g_last.parents) = d
            /\ \A k \in 1..(Len(g_last.parents) - 1) :
                  g_last.parents[k] <= g_last.parents[k + 1]
            /\ Count(pad, g_last.parents)
                  >= d - g_graph.base_degree - Len(g_last.expanded)

\* C8 witness: parents of a node of a reversed graph that has an expanded
\* parent, but fewer than expansion_degree of them, so that padding was added
C8_Witness ==
    /\ g_last.op = "parents"
    /\ g_last.reversed
    /\ g_last.status = "ok"
    /\ Len(g_last.expanded) >= 1
    /\ Len(g_last.expanded) < g_graph.expansion_degree

\* C9: in every state, for all nodes i and p, a call of expanded_parents(i) on
\* g returns p among its values exactly if a call of expanded_parents(p) on
\* g.zigzag() returns i among its values.
C9_Reciprocity ==
    \A i \in 0..(size(g_graph) - 1), q \in 0..(size(g_graph) - 1) :
        IsIn(q, expanded_parents(g_graph, g_cache, i).parents)
            <=> IsIn(i, expanded_parents(zigzag(g_graph), g_cache, q).parents)

\* C9 witness: both directions have been asked for expanded parents, the
\* forward graph for a node that has one
C9_Witness ==
    /\ g_last.op = "expanded_parents"
    /\ ~g_last.reversed
    /\ g_last.parents # <<>>
    /\ DOMAIN g_cache[2] # {}
    /\ \E q \in DOMAIN g_cache[2] : IsIn(g_last.node, g_cache[2][q])

\* C27: in every call of expanded_parents (directly or through parents) on
\* the graphs that share the cache, the value returned for (direction, node)
\* is the one computed from the correspondents, whether or not the cache
\* served it, and so is every entry a call puts into the cache; a call on a forward graph leaves
\* the reversed-direction cache as it was and a call on a reversed graph the
\* forward one; and once expanded_parents has been called for every node of
\* a graph that fits the budget, the cache of that direction holds exactly
\* n entries.
C27_CacheTransparency ==
    [][/\ g_last'.op \in {"parents", "expanded_parents"} =>
             g_last'.expanded =
                 FilterCorrespondents(Handle(g_last'.reversed), g_last'.node, 0)
       /\ \A h \in BOOLEAN :
             \A node \in DOMAIN g_cache'[IF h THEN 2 ELSE 1] :
                (\/ node \notin DOMAIN g_cache[IF h THEN 2 ELSE 1]
                 \/ g_cache'[IF h THEN 2 ELSE 1][node] #
                        g_cache[IF h THEN 2 ELSE 1][node]) =>
                    g_cache'[IF h THEN 2 ELSE 1][node] =
                        FilterCorrespondents(Handle(h), node, 0)
       /\ \A h \in BOOLEAN :
             g_last'.reversed = h =>
                 g_cache'[IF h THEN 1 ELSE 2] =
                     g_cache[IF h THEN 1 ELSE 2]
       /\ \A h \in BOOLEAN :
             (/\ g_graph.cache_entries = size(g_graph)
              /\ \A node \in 0..(size(g_graph) - 1) : <<h, node>> \in g_called') =>
                 Cardinality(DOMAIN g_cache'[IF h THEN 2 ELSE 1])
                     = size(g_graph)
      ]_vars

\* expanded_parents called for every node of the largest graph in both
\* directions: each cache holds MaxNodes entries, and the two differ
C27_Witness ==
    /\ size(g_graph) = MaxNodes
    /\ g_last.op = "expanded_parents"
    /\ \A h \in BOOLEAN : \A node \in 0..(MaxNodes - 1) : <<h, node>> \in g_called
    /\ Cardinality(DOMAIN g_cache[1]) = MaxNodes
    /\ Cardinality(DOMAIN g_cache[2]) = MaxNodes
    /\ g_cache[1] # g_cache[2]

----------------------------------------------------------------------------
(* Layered PoRep: one sector replicated and extracted                      *)

MaxLayers == 3

MaxLayerNodes == 5

MaxLambda == 2

MaxSlothIter == 1

\* the taus simplify_tau is handed have commitments 0..MaxComm
MaxComm == 2

ReplicaIds == {<<1>>, <<200, 7>>}

NoRep ==
    [data |-> <<>>, taus |-> <<>>, auxs |-> <<>>, directions |-> <<>>,
     transforms |-> <<>>]

NoExt == [data |-> <<>>, directions |-> <<>>]

NoTau == Tau(0, 0)

LayersIdle ==
    /\ l_pp = LayeredPublicParams(DrgPublicParams(ZigZagGraphNew(1, 1, 1, 0), 1, 0), 1)
    /\ l_rid = <<>>
    /\ l_data = <<>>
    /\ l_pc = "idle"
    /\ l_rep = NoRep
    /\ l_ext = NoExt
    /\ l_tauIn = <<>>
    /\ l_tau = NoTau

\* ZigZagDrgPoRep::setup, and the sector and replica_id of the caller
LayersStart ==
    /\ l_pp \in {LayeredPublicParams(
                    DrgPublicParams(ZigZagGraphNew(n, m, e, sd), lambda, iter), layers) :
                    n \in 1..MaxLayerNodes, m \in 1..MaxBaseDegree,
                    e \in 1..MaxExpansionDegree, sd \in Seeds,
                    lambda \in 1..MaxLambda, iter \in 1..MaxSlothIter,
                    layers \in 1..MaxLayers}
    /\ l_rid \in ReplicaIds
    /\ l_data \in {Bytes(pat, size(l_pp.drg_porep_public_params.graph)
                                 * l_pp.drg_porep_public_params.lambda) :
                      pat \in {"count", "mix"}}
    /\ l_pc = "new"
    /\ l_rep = NoRep
    /\ l_ext = NoExt
    /\ l_tauIn = <<>>
    /\ l_tau = NoTau

\* ZigZagDrgPoRep::replicate(&pp, &replica_id, &mut data)
Replicate ==
    /\ l_pc = "new"
    /\ l_rep' = replicate(l_pp, l_rid, l_data)
    /\ l_pc' = "replicated"
    /\ UNCHANGED <<l_pp, l_rid, l_data, l_ext, l_tauIn, l_tau>>
    /\ UNCHANGED notLayers

\* ZigZagDrgPoRep::extract_all(&pp, &replica_id, &replica)
ExtractAll ==
    /\ l_pc = "replicated"
    /\ l_ext' = extract_all(l_pp, l_rid, l_rep.data)
    /\ l_pc' = "extracted"
    /\ UNCHANGED <<l_pp, l_rid, l_data, l_rep, l_tauIn, l_tau>>
    /\ UNCHANGED notLayers

\* the lists of 1..MaxLayers taus over the commitments 0..MaxComm
TauLists ==
    UNION {[1..len -> {Tau(r, d) : r \in 0..MaxComm, d \in 0..MaxComm}] :
              len \in 1..MaxLayers}

\* a caller with a list of taus and nothing else
TausStart ==
    /\ l_pp = LayeredPublicParams(DrgPublicParams(ZigZagGraphNew(1, 1, 1, 0), 1, 0), 1)
    /\ l_rid = <<>>
    /\ l_data = <<>>
    /\ l_pc = "taus"
    /\ l_rep = NoRep
    /\ l_ext = NoExt
    /\ l_tauIn = <<>>
    /\ l_tau = NoTau

\* simplify_tau(&taus), once
SimplifyTau(taus) ==
    /\ l_pc \notin {"idle", "new"}
    /\ l_tauIn = <<>>
    /\ taus # <<>>
    /\ l_tauIn' = taus
    /\ l_tau' = simplify_tau(taus)
    /\ UNCHANGED <<l_pp, l_rid, l_data, l_pc, l_rep, l_ext>>
    /\ UNCHANGED notLayers

\* replicate, then simplify_tau of its taus (as seal does) and extract_all
LayersNext ==
    \/ Replicate
    \/ ExtractAll
    \/ SimplifyTau(l_rep.taus)

\* simplify_tau of any list of taus
TausNext == \E taus \in TauLists : l_pc = "taus" /\ SimplifyTau(taus)

\* C3: whenever layered extract_all has run with pp on the buffer that layered
\* replicate produced with the same pp and replica_id, for a layer count
\* L >= 1 and a buffer of n * lambda bytes, it has returned the original data.
C3_LayeredInvertible ==
    l_pc = "extracted" => l_ext.data = l_data

\* C20: layered replicate has run the single-layer replicate exactly L times,
\* in layer order on the same buffer (each layer's data is the replica of the
\* layer before it), and returned L taus and L auxs in that order; the graph
\* directions alternate from one layer to the next, starting with the given
\* graph; and every transform call was given the index of the layer just
\* replicated and the total layer count L.
C20_LayeredReplicate ==
    l_pc \in {"replicated", "extracted"} =>
        /\ Len(l_rep.taus) = l_pp.layers
        /\ Len(l_rep.auxs) = l_pp.layers
        /\ Len(l_rep.directions) = l_pp.layers
        /\ l_rep.taus[1].comm_d = merkle_root(l_data)
        /\ l_rep.taus[l_pp.layers].comm_r = merkle_root(l_rep.data)
        /\ \A i \in 1..(l_pp.layers - 1) :
              /\ l_rep.taus[i + 1].comm_d = l_rep.taus[i].comm_r
              /\ l_rep.directions[i + 1] = ~l_rep.directions[i]
        /\ l_rep.directions[1] = l_pp.drg_porep_public_params.graph.reversed
        /\ Len(l_rep.transforms) = l_pp.layers - 1
        /\ \A i \in 1..(l_pp.layers - 1) :
              l_rep.transforms[i] = <<i - 1, l_pp.layers>>

\* C10: simplify_tau of a non-empty list of taus has returned the comm_d of
\* the first and the comm_r of the last.
C10_SimplifyTau ==
    l_tauIn # <<>> =>
        /\ l_tau.comm_d = l_tauIn[1].comm_d
        /\ l_tau.comm_r = l_tauIn[Len(l_tauIn)].comm_r

\* C10 witness: three taus whose middle one differs from both ends in both
\* commitments
C10_Witness ==
    /\ Len(l_tauIn) = 3
    /\ l_tauIn[1] = Tau(0, 1)
    /\ l_tauIn[2] = Tau(1, 0)
    /\ l_tauIn[3] = Tau(2, 0)
    /\ l_tau = Tau(2, 1)

----------------------------------------------------------------------------
(* Field elements (fr32 and the hasher domain: not among the sources).  A  *)
(* field element is given by its 32 little-endian bytes; a commitment is   *)
(* the digest that merkle_root computes.                                   *)

\* Result values
Ok(v) == [status |-> "ok", value |-> v]

Err == [status |-> "err"]

\* a failed assertion, expect or out-of-bounds index
Panic == [status |-> "panic"]

\* bytes_into_fr: Err unless the bytes are a field element (32 bytes with
\* the two top bits clear)
bytes_into_fr(bytes) ==
    IF Len(bytes) # 32 \/ bytes[32] >= 64 THEN Err ELSE Ok([fr |-> bytes])

\* fr_into_bytes
fr_into_bytes(fr) == fr.fr

\* the field element of a commitment (the .0 of a PedersenHash): the digest
\* in little-endian bytes
DomainFr(digest) ==
    [fr |-> [i \in 1..32 |->
                IF i <= 3 THEN (digest \div (256 ^ (i - 1))) % 256 ELSE 0]]

RECURSIVE HighBytes(_, _)
\* what the bytes from i on add to a digest beyond its low three bytes
HighBytes(bytes, i) ==
    IF i > Len(bytes) THEN 0
    ELSE (IF bytes[i] = 0 THEN 0 ELSE 16777216 + i * bytes[i])
            + HighBytes(bytes, i + 1)

\* PedersenHash(fr): the commitment of a field element
PedersenHash(fr) ==
    fr.fr[1] + 256 * fr.fr[2] + 65536 * fr.fr[3] + HighBytes(fr.fr, 4)

----------------------------------------------------------------------------
(* Single-layer DRG-PoRep proofs (drgporep::prove and verify, not among    *)
(* the sources).  A Merkle opening is the slot, its index and the root     *)
(* that the authentication path hashes to.                                 *)

\* drgporep::DataProof: the opening of slot node of the tree with these
\* leaves, carrying the slot that data has there
DataProof(leaves, data, node, lambda) ==
    The({[data |-> slot, node |-> node,
          root |-> merkle_root(WithSlot(leaves, node, lambda, slot))] :
            slot \in {data_at_node(data, node, lambda)}})

\* MerkleProof::validate and the check of the proven index
validate(opening, root, node) == opening.root = root /\ opening.node = node

\* drgporep::PublicInputs
PublicInputs(replica_id, challenges, tau) ==
    [replica_id |-> replica_id, challenges |-> challenges, tau |-> tau]

\* DrgPoRep::prove: for every challenge the opening of the replica slot and
\* of every parent's replica slot in tree_r, and of the data slot in tree_d
drg_prove(pp, pub_inputs, priv_inputs) ==
    [replica_nodes |->
        [i \in DOMAIN pub_inputs.challenges |->
            DataProof(priv_inputs.aux.tree_r, priv_inputs.replica,
                      pub_inputs.challenges[i], pp.lambda)],
     replica_parents |->
        [i \in DOMAIN pub_inputs.challenges |->
            The({[j \in DOMAIN ps |->
                     <<ps[j], DataProof(priv_inputs.aux.tree_r,
                                        priv_inputs.replica, ps[j], pp.lambda)>>] :
                    ps \in {graph_parents(pp.graph, pub_inputs.challenges[i])}})],
     nodes |->
        [i \in DOMAIN pub_inputs.challenges |->
            DataProof(priv_inputs.aux.tree_d, priv_inputs.aux.tree_d,
                      pub_inputs.challenges[i], pp.lambda)]]

RECURSIVE OpenedSlots(_, _, _, _)
\* a buffer holding the first j opened parents' slots at their indices
OpenedSlots(opened, size_bytes, lambda, j) ==
    IF j = 0 THEN [b \in 1..size_bytes |-> 0]
    ELSE WithSlot(OpenedSlots(opened, size_bytes, lambda, j - 1),
                  opened[j][1], lambda, opened[j][2].data)

\* DrgPoRep::verify for the i-th challenge: the openings are valid under
\* tau, the opened parents are the parents of the challenge in the
\* verifier's graph, and the replica slot decoded with the key of the opened
\* parents is the opened data slot
drg_verify_challenge(pp, pub_inputs, proof, i) ==
    The({The({
        /\ validate(proof.replica_nodes[i], pub_inputs.tau.value.comm_r, c)
        /\ validate(proof.nodes[i], pub_inputs.tau.value.comm_d, c)
        /\ Len(proof.replica_parents[i]) = Len(ps)
        /\ \A j \in DOMAIN ps :
              /\ proof.replica_parents[i][j][1] = ps[j]
              /\ validate(proof.replica_parents[i][j][2],
                          pub_inputs.tau.value.comm_r, ps[j])
        /\ The({[b \in 1..pp.lambda |->
                    (proof.replica_nodes[i].data[b] + 256 - key[b]) % 256] :
                  key \in {enc_key(
                      create_key(fr_into_bytes(pub_inputs.replica_id), c, ps,
                          OpenedSlots(proof.replica_parents[i],
                                      size(pp.graph) * pp.lambda, pp.lambda,
                                      Len(ps)),
                          pp.lambda),
                      pp.sloth_iter)}}) = proof.nodes[i].data :
        ps \in {graph_parents(pp.graph, c)}}) :
        c \in {pub_inputs.challenges[i]}})

\* DrgPoRep::verify
drg_verify(pp, pub_inputs, proof) ==
    \A i \in DOMAIN pub_inputs.challenges :
        drg_verify_challenge(pp, pub_inputs, proof, i)

----------------------------------------------------------------------------
(* Layered proofs: layered_drgporep.rs                                     *)

\* layered_drgporep::Proof
LayeredProof(encoding_proofs, tau) ==
    [encoding_proofs |-> encoding_proofs, tau |-> tau]

RECURSIVE prove_layers_untransformed(_, _, _, _, _, _, _, _)
\* prove_layers, were the parameters not transformed between the layers
prove_layers_untransformed(pp, pub_inputs, priv_inputs, tau, aux, layers, total_layers, proofs) ==
    The({The({IF layers # 1
              THEN prove_layers_untransformed(pp, pub_inputs, new_priv_inputs,
                                              tau, aux, layers - 1, layers, pushed)
              ELSE pushed :
                pushed \in {Append(proofs,
                    drg_prove(pp,
                        PublicInputs(pub_inputs.replica_id, pub_inputs.challenges,
                                     Some(tau[(Len(tau) - layers) + 1])),
                        new_priv_inputs))}}) :
        new_priv_inputs \in
            {[replica |-> drg_replicate(pp, fr_into_bytes(pub_inputs.replica_id),
                                        priv_inputs.replica).data,
              aux |-> aux[(Len(aux) - layers) + 1]]}})

RECURSIVE prove_layers(_, _, _, _, _, _, _, _)
\* Layers::prove_layers (layers > 0 is asserted): the proofs with this and
\* the remaining layers' encoding proofs pushed
prove_layers(pp, pub_inputs, priv_inputs, tau, aux, layers, total_layers, proofs) ==
    The({The({IF layers # 1
              THEN prove_layers(transform(pp, total_layers - layers, total_layers),
                                pub_inputs, new_priv_inputs, tau, aux,
                                layers - 1, layers, pushed)
              ELSE pushed :
                pushed \in {Append(proofs,
                    drg_prove(pp,
                        PublicInputs(pub_inputs.replica_id, pub_inputs.challenges,
                                     Some(tau[(Len(tau) - layers) + 1])),
                        new_priv_inputs))}}) :
        new_priv_inputs \in
            {[replica |-> drg_replicate(pp, fr_into_bytes(pub_inputs.replica_id),
                                        priv_inputs.replica).data,
              aux |-> aux[(Len(aux) - layers) + 1]]}})

\* ProofScheme::prove of the layered scheme
prove(pub_params, pub_inputs, priv_inputs) ==
    LayeredProof(
        prove_layers(pub_params.drg_porep_public_params, pub_inputs,
                     [aux |-> priv_inputs.aux[1], replica |-> priv_inputs.replica],
                     priv_inputs.tau, priv_inputs.aux,
                     pub_params.layers, pub_params.layers, <<>>),
        priv_inputs.tau)

RECURSIVE verify_layers(_, _, _, _, _)
\* the loop of verify from layer on (from 1): "true", "false", or "panic"
\* when proof.tau has no entry for the layer
verify_layers(pp, total_layers, pub_inputs, proof, layer) ==
    IF layer > Len(proof.encoding_proofs) THEN "true"
    ELSE IF layer > Len(proof.tau) THEN "panic"
    ELSE IF ~drg_verify(pp,
                PublicInputs(pub_inputs.replica_id, pub_inputs.challenges,
                             Some(proof.tau[layer])),
                [replica_nodes |-> <<proof.encoding_proofs[layer].replica_nodes[1]>>,
                 replica_parents |-> <<proof.encoding_proofs[layer].replica_parents[1]>>,
                 nodes |-> <<proof.encoding_proofs[layer].nodes[1]>>])
         THEN "false"
    ELSE verify_layers(transform(pp, layer - 1, total_layers), total_layers,
                       pub_inputs, proof, layer + 1)

\* ProofScheme::verify of the layered scheme
verify(pub_params, pub_inputs, proof) ==
    IF Len(proof.encoding_proofs) # pub_params.layers THEN "false"
    ELSE verify_layers(pub_params.drg_porep_public_params, pub_params.layers,
                       pub_inputs, proof, 1)

----------------------------------------------------------------------------
(* Compound proof (compound_proof, circuit and parameter_cache: not among  *)
(* the sources).  A Groth16 proof is given by what it attests: the public  *)
(* inputs of the circuit, whether the witness (the vanilla proof)          *)
(* satisfies it, and the key it was made under.                            *)

RECURSIVE LayerParents(_, _, _)
\* the parents of the challenges in the graph of each of the layers left
LayerParents(pp, challenges, layers) ==
    IF layers = 0 THEN <<>>
    ELSE <<[i \in DOMAIN challenges |-> graph_parents(pp.graph, challenges[i])]>>
            \o LayerParents(transform(pp, 0, layers), challenges, layers - 1)

\* the public inputs of the circuit: replica_id, the commitments, and per
\* layer each challenge with the positions of its parents
generate_public_inputs(pub_params, pub_inputs) ==
    [replica_id |-> pub_inputs.replica_id,
     tau |-> pub_inputs.tau,
     challenges |-> pub_inputs.challenges,
     nodes |-> size(pub_params.drg_porep_public_params.graph),
     parents |-> LayerParents(pub_params.drg_porep_public_params,
                              pub_inputs.challenges, pub_params.layers)]

\* the Groth16 key of the circuit for a sector size: generated on first use
\* per size
groth_params(proof_sector_bytes) == [sector_bytes |-> proof_sector_bytes]

\* CompoundProof::prove: the vanilla proof wrapped in a Groth16 proof
compound_prove(pub_params, pub_inputs, priv_inputs) ==
    The({[circuit_proof |->
             [inputs |-> generate_public_inputs(pub_params, pub_inputs),
              satisfied |-> verify(pub_params, pub_inputs, vanilla) = "true",
              key |-> groth_params(size(pub_params.drg_porep_public_params.graph)
                                   * pub_params.drg_porep_public_params.lambda)],
          groth_params |->
              groth_params(size(pub_params.drg_porep_public_params.graph)
                           * pub_params.drg_porep_public_params.lambda)] :
            vanilla \in {prove(pub_params, pub_inputs, priv_inputs)}})

\* CompoundProof::verify: the Groth16 proof checked against the key and the
\* public inputs the verifier builds
compound_verify(pub_params, pub_inputs, proof) ==
    /\ proof.circuit_proof.key = proof.groth_params
    /\ proof.circuit_proof.satisfied
    /\ proof.circuit_proof.inputs = generate_public_inputs(pub_params, pub_inputs)

----------------------------------------------------------------------------
(* The seal API: filecoin-proofs/src/api/internal.rs and the sector store  *)
(* of sector-base/src/api/disk_backed_storage.rs                           *)

FAKE_SECTOR_BYTES == 128

\* LAMBDA (a reserved word here)
Lambda == 32

DEGREE == 1

EXPANSION_DEGREE == 2

SLOTH_ITER == 1

LAYERS == 2

REAL_SECTOR_SIZE == 128

FAST_SECTOR_SIZE == 1024

FAST_DELAY_SECONDS == 10

\* RealConfig and its SectorConfig implementation
RealConfig(sector_bytes) ==
    [fake |-> FALSE, delay_seconds |-> None, sector_bytes |-> sector_bytes]

\* FakeConfig and its SectorConfig implementation
FakeConfig(sector_bytes, delay_seconds) ==
    [fake |-> TRUE, delay_seconds |-> Some(delay_seconds),
     sector_bytes |-> sector_bytes]

\* setup_params(sector_bytes), with the seed that new_seed() returned
setup_params(sector_bytes, seed) ==
    [drg_porep_setup_params |->
        [lambda |-> Lambda,
         drg |-> [nodes |-> sector_bytes \div Lambda, degree |-> DEGREE,
                  expansion_degree |-> EXPANSION_DEGREE, seed |-> seed],
         sloth_iter |-> SLOTH_ITER],
     layers |-> LAYERS]

\* DrgPoRep::setup: the graph of the drg parameters
drg_setup(sp) ==
    DrgPublicParams(ZigZagGraphNew(sp.drg.nodes, sp.drg.degree,
                                   sp.drg.expansion_degree, sp.drg.seed),
                    sp.lambda, sp.sloth_iter)

\* ProofScheme::setup of the layered scheme
setup(sp) == LayeredPublicParams(drg_setup(sp.drg_porep_setup_params), sp.layers)

\* public_params(sector_bytes), with the seed that new_seed() returned
public_params(sector_bytes, seed) == setup(setup_params(sector_bytes, seed))

\* commitment_from_fr
commitment_from_fr(fr) ==
    The({[i \in 1..32 |-> IF i <= Len(bytes) THEN bytes[i] ELSE 0] :
            bytes \in {fr_into_bytes(fr)}})

\* pad_safe_fr
pad_safe_fr(unpadded) == [i \in 1..32 |-> IF i <= 31 THEN unpadded[i] ELSE 0]

\* replica_id = H(prover_id || sector_id), a field element
replica_id(prover_id, sector_id) ==
    [b \in 1..32 |->
        (3 * prover_id[b] + 5 * sector_id[b] + 7 * b) % (IF b = 32 THEN 64 ELSE 256)]

\* get_config: the derived configuration, and whether the assertion holds
get_config(sector_store) ==
    [fake |-> sector_store.fake,
     delay_seconds |-> sector_store.delay_seconds,
     sector_bytes |-> sector_store.sector_bytes,
     proof_sector_bytes |-> IF sector_store.fake THEN FAKE_SECTOR_BYTES
                            ELSE sector_store.sector_bytes,
     valid |-> IF sector_store.fake THEN TRUE
               ELSE ~sector_store.delay_seconds.some]

\* derive_challenges
derive_challenges(comm_r, comm_d) == <<1>>

\* the parameter cache file of a sector size: read_cached_params
read_cached_params(cache, sector_size) ==
    IF sector_size \in DOMAIN cache THEN Ok(cache[sector_size]) ELSE Err

\* write_params_to_cache
write_params_to_cache(cache, params, sector_size) ==
    [s \in DOMAIN cache \cup {sector_size} |->
        IF s = sector_size THEN params ELSE cache[s]]

\* verify_seal: Panic when an assertion fails, Err, or Ok(verified).  seed is
\* what new_seed() returns to its public_params call.
verify_seal(sector_store, comm_r, comm_d, prover_id_in, sector_id_in, proof_vec, cache, seed) ==
    The({The({The({The({The({
        IF ~config.valid THEN Panic
        ELSE IF replica_id_fr.status # "ok" THEN Err
        ELSE IF comm_r_fr.status # "ok" \/ comm_d_fr.status # "ok" THEN Err
        ELSE IF cached.status # "ok" THEN Err
        ELSE IF config.proof_sector_bytes % Lambda # 0 THEN Panic
        ELSE Ok(compound_verify(
                    public_params(config.proof_sector_bytes, seed),
                    PublicInputs(replica_id_fr.value,
                                 derive_challenges(comm_r, comm_d),
                                 Some(Tau(PedersenHash(comm_r_fr.value),
                                          PedersenHash(comm_d_fr.value)))),
                    [circuit_proof |-> proof_vec, groth_params |-> cached.value])) :
        cached \in {read_cached_params(cache, config.proof_sector_bytes)}}) :
        comm_d_fr \in {bytes_into_fr(comm_d)}}) :
        comm_r_fr \in {bytes_into_fr(comm_r)}}) :
        replica_id_fr \in {bytes_into_fr(replica_id(pad_safe_fr(prover_id_in),
                                                    pad_safe_fr(sector_id_in)))}}) :
        config \in {get_config(sector_store)}})

\* what seal records of its self verification when it ends before it
NotRun == [status |-> "none"]

\* perform_replication, were the file written when faking the proved prefix
perform_replication_proved_prefix(public_params_, replica_id_, data, fake, proof_sector_bytes) ==
    IF fake
    THEN IF Len(data) < FAKE_SECTOR_BYTES
         THEN [status |-> "panic", out_file |-> data, data |-> data]
         ELSE The({[status |-> "ok", out_file |-> r.data,
                    data |-> r.data \o SubSeq(data, proof_sector_bytes + 1,
                                              Len(data)),
                    tau |-> r.taus, aux |-> r.auxs] :
                     r \in {replicate(public_params_, replica_id_,
                                      SubSeq(data, 1, proof_sector_bytes))}})
    ELSE The({[status |-> "ok", out_file |-> r.data, data |-> r.data,
               tau |-> r.taus, aux |-> r.auxs] :
                r \in {replicate(public_params_, replica_id_, data)}})

\* perform_replication, were the file written after the replication when
\* faking too
perform_replication_written_last(public_params_, replica_id_, data, fake, proof_sector_bytes) ==
    IF fake
    THEN IF Len(data) < FAKE_SECTOR_BYTES
         THEN [status |-> "panic", out_file |-> data, data |-> data]
         ELSE The({[status |-> "ok", out_file |-> r.data \o SubSeq(data, proof_sector_bytes + 1,
                                                  Len(data)),
                    data |-> r.data \o SubSeq(data, proof_sector_bytes + 1,
                                              Len(data)),
                    tau |-> r.taus, aux |-> r.auxs] :
                     r \in {replicate(public_params_, replica_id_,
                                      SubSeq(data, 1, proof_sector_bytes))}})
    ELSE The({[status |-> "ok", out_file |-> r.data, data |-> r.data,
               tau |-> r.taus, aux |-> r.auxs] :
                r \in {replicate(public_params_, replica_id_, data)}})

\* perform_replication: the file at out_path, the data buffer afterwards, tau
\* and aux; Panic when the data is shorter than FAKE_SECTOR_BYTES when faking
perform_replication(public_params_, replica_id_, data, fake, proof_sector_bytes) ==
    IF fake
    THEN IF Len(data) < FAKE_SECTOR_BYTES
         THEN [status |-> "panic", out_file |-> data, data |-> data]
         ELSE The({[status |-> "ok", out_file |-> data,
                    data |-> r.data \o SubSeq(data, proof_sector_bytes + 1,
                                              Len(data)),
                    tau |-> r.taus, aux |-> r.auxs] :
                     r \in {replicate(public_params_, replica_id_,
                                      SubSeq(data, 1, proof_sector_bytes))}})
    ELSE The({[status |-> "ok", out_file |-> r.data, data |-> r.data,
               tau |-> r.taus, aux |-> r.auxs] :
                r \in {replicate(public_params_, replica_id_, data)}})

\* seal from the compound prove on: the proof serialized, the parameters
\* written to the cache, and the self verification, whose Err alone panics
seal_proved(sector_store, prover_id_in, sector_id_in, cache, verify_seed, proof_sector_bytes, public_tau, rep, private_inputs, proof) ==
    The({The({
        [result |-> IF self_verify.status # "ok" THEN Panic
                    ELSE Ok([comm_r |-> commitment_from_fr(DomainFr(public_tau.comm_r)),
                             comm_d |-> commitment_from_fr(DomainFr(public_tau.comm_d)),
                             proof |-> proof.circuit_proof]),
         out_file |-> rep.out_file,
         data |-> rep.data,
         replica |-> private_inputs.replica,
         cache |-> written,
         self_verify |-> self_verify] :
        self_verify \in {verify_seal(sector_store,
                            commitment_from_fr(DomainFr(public_tau.comm_r)),
                            commitment_from_fr(DomainFr(public_tau.comm_d)),
                            prover_id_in, sector_id_in, proof.circuit_proof,
                            written, verify_seed)}}) :
        written \in {write_params_to_cache(cache, proof.groth_params,
                                           proof_sector_bytes)}})

\* seal from the replication on
seal_replicated(sector_store, prover_id_in, sector_id_in, cache, verify_seed, config, compound_public_params, replica_id_, data_copy, rep) ==
    IF rep.status # "ok"
    THEN [result |-> Panic, out_file |-> rep.out_file, data |-> rep.data,
          replica |-> <<>>, cache |-> cache, self_verify |-> NotRun]
    ELSE The({The({
        IF replica_id_fr.status # "ok"
        THEN [result |-> Err, out_file |-> rep.out_file, data |-> rep.data,
              replica |-> <<>>, cache |-> cache, self_verify |-> NotRun]
        ELSE The({The({seal_proved(sector_store, prover_id_in, sector_id_in,
                      cache, verify_seed, config.proof_sector_bytes, public_tau,
                      rep, private_inputs, proof) :
                proof \in {compound_prove(compound_public_params,
                    PublicInputs(replica_id_fr.value,
                        derive_challenges(
                            fr_into_bytes(DomainFr(public_tau.comm_r)),
                            fr_into_bytes(DomainFr(public_tau.comm_d))),
                        Some(public_tau)),
                    private_inputs)}}) :
                private_inputs \in
                    {[replica |-> SubSeq(data_copy, 1, config.proof_sector_bytes),
                      aux |-> rep.aux, tau |-> rep.tau]}}) :
        public_tau \in {simplify_tau(rep.tau)}}) :
        replica_id_fr \in {bytes_into_fr(replica_id_)}})

\* seal(sector_store, in_path, out_path, prover_id_in, sector_id_in): the
\* result, the file at out_path, the data buffer at the end, the replica of
\* the private inputs handed to the prover, the parameter cache, and what the
\* self verification returned.  seed and verify_seed are what new_seed() returns
\* to setup_params in seal and in its verify_seal; in_exists is whether
\* in_path names a file, which File::open needs.
seal(sector_store, in_exists, in_file, out_file, prover_id_in, sector_id_in, cache, seed, verify_seed) ==
    The({
        IF ~config.valid
        THEN [result |-> Panic, out_file |-> out_file, data |-> <<>>,
              replica |-> <<>>, cache |-> cache, self_verify |-> NotRun]
        ELSE IF ~in_exists
        THEN [result |-> Err, out_file |-> out_file, data |-> <<>>,
              replica |-> <<>>, cache |-> cache, self_verify |-> NotRun]
        ELSE IF config.proof_sector_bytes % Lambda # 0
        THEN [result |-> Panic, out_file |-> out_file, data |-> <<>>,
              replica |-> <<>>, cache |-> cache, self_verify |-> NotRun]
        ELSE The({The({The({The({
            seal_replicated(sector_store, prover_id_in, sector_id_in, cache,
                verify_seed, config, compound_public_params, replica_id_, data,
                rep) :
            rep \in {perform_replication(compound_public_params, replica_id_,
                         data, config.fake, config.proof_sector_bytes)}}) :
            compound_public_params \in
                {setup(setup_params(config.proof_sector_bytes, seed))}}) :
            replica_id_ \in {replica_id(pad_safe_fr(prover_id_in),
                                        pad_safe_fr(sector_id_in))}}) :
            data \in {[i \in 1..config.sector_bytes |->
                          IF i <= Len(in_file) THEN in_file[i] ELSE 0]}}) :
        config \in {get_config(sector_store)}})

\* get_unsealed_range: the result and the file at output_path.  The range
\* is handed to write_unpadded, which takes its length alone.  sealed_exists
\* is whether sealed_path names a file, which File::open needs.
get_unsealed_range(sector_store, sealed_exists, sealed_file, prover_id_in, sector_id_in, offset, num_bytes, seed) ==
    The({
        IF ~config.valid THEN [result |-> Panic, out_file |-> <<>>]
        ELSE IF ~sealed_exists THEN [result |-> Err, out_file |-> <<>>]
        ELSE IF ~config.fake /\ config.sector_bytes % Lambda # 0
        THEN [result |-> Panic, out_file |-> <<>>]
        ELSE The({[result |-> Ok(r.written), out_file |-> r.out] :
                r \in {write_unpadded(
                          IF config.fake
                          THEN Take(sealed_file, config.sector_bytes)
                          ELSE extract_all(
                                   public_params(config.sector_bytes, seed),
                                   replica_id(pad_safe_fr(prover_id_in),
                                              pad_safe_fr(sector_id_in)),
                                   Take(sealed_file, config.sector_bytes)).data,
                          num_bytes)}}) :
        config \in {get_config(sector_store)}})

\* get_unsealed (mod.rs): the whole sector, from offset 0
get_unsealed(sector_store, sealed_exists, sealed_file, prover_id_in, sector_id_in, seed) ==
    get_unsealed_range(sector_store, sealed_exists, sealed_file, prover_id_in,
                       sector_id_in, 0, sector_store.sector_bytes, seed)

\* What an extern "C" function hands its caller: a status code, or nothing
\* when the call panicked.
Status(code) == [returned |-> TRUE, status |-> code]

NoStatus == [returned |-> FALSE]

\* seal (mod.rs): the status for what the internal seal returned
api_seal(result) ==
    IF result.status = "ok" THEN Status(0)
    ELSE IF result.status = "err" THEN Status(10)
    ELSE NoStatus

\* verify_seal (mod.rs)
api_verify_seal_false_as_error(result) ==
    IF result.status = "ok" THEN (IF result.value THEN Status(0) ELSE Status(21))
    ELSE IF result.status = "err" THEN Status(21)
    ELSE NoStatus

api_verify_seal(result) ==
    IF result.status = "ok" THEN (IF result.value THEN Status(0) ELSE Status(20))
    ELSE IF result.status = "err" THEN Status(21)
    ELSE NoStatus

\* get_unsealed_range and get_unsealed (mod.rs)
api_get_unsealed_range(result) ==
    IF result.status = "ok" THEN Status(0)
    ELSE IF result.status = "err" THEN Status(30)
    ELSE NoStatus

\* an out-parameter that still holds what the caller put there
Untouched == [written |-> FALSE]

\* an out-parameter overwritten, all of it, with v
Written(v) == [written |-> TRUE, value |-> v]

\* the out-parameters of the caller before any call
CallerOut ==
    [comm_r |-> Untouched, comm_d |-> Untouched, proof |-> Untouched,
     count |-> Untouched]

\* seal (mod.rs), were result_proof zeroed when the internal seal fails
seal_out_cleared_on_error(result, out) ==
    IF result.status = "ok"
    THEN [out EXCEPT !.comm_r = Written(result.value.comm_r),
                     !.comm_d = Written(result.value.comm_d),
                     !.proof = Written(result.value.proof)]
    ELSE IF result.status = "err" THEN [out EXCEPT !.proof = Written(<<>>)]
    ELSE out

\* seal (mod.rs): the out-parameters afterwards
seal_out(result, out) ==
    IF result.status = "ok"
    THEN [out EXCEPT !.comm_r = Written(result.value.comm_r),
                     !.comm_d = Written(result.value.comm_d),
                     !.proof = Written(result.value.proof)]
    ELSE out

\* get_unsealed_range (mod.rs): the out-parameters afterwards
get_unsealed_range_out(result, out) ==
    IF result.status = "ok" THEN [out EXCEPT !.count = Written(result.value)]
    ELSE out

\* DiskManager::write_unsealed(access, data): the staged file with the
\* padded data appended, and the count it reports
write_unsealed(staged, data) ==
    The({[file |-> staged \o r.out, result |-> Ok(r.written)] :
            r \in {write_padded(data)}})

----------------------------------------------------------------------------
(* The seal API: a store, one staged sector and its callers                *)

\* the sector size of a real store other than REAL_SECTOR_SIZE
LargeSectorBytes == 192

\* the longest contents staged: what the API tests stage in the smallest
\* sector, REAL_SECTOR_SIZE - 50
MaxContents == 78

\* the largest offset asked of get_unsealed_range
MaxRangeOffset == 5

\* a sector size that is not a multiple of Lambda
OddSectorBytes == 130

\* the store configurations
Stores ==
    {RealConfig(REAL_SECTOR_SIZE), RealConfig(LargeSectorBytes),
     RealConfig(OddSectorBytes),
     FakeConfig(FAST_SECTOR_SIZE, FAST_DELAY_SECONDS),
     FakeConfig(OddSectorBytes, FAST_DELAY_SECONDS)}

\* the prover and sector ids (FrSafe: 31 bytes)
Ids == {[i \in 1..31 |-> 1], [i \in 1..31 |-> (i % 7) + 2]}

NoSeal == [called |-> FALSE]

NoVerify == [called |-> FALSE]

NoUnseal == [called |-> FALSE]

NoFfi == [op |-> "none"]

\* the outcome of a call: "ok", "err", "panic", or what verify_seal found
Outcome(result) ==
    IF result.status = "ok" /\ result.value \in BOOLEAN
    THEN (IF result.value THEN "true" ELSE "false")
    ELSE result.status

ApiIdle ==
    /\ a_store = RealConfig(REAL_SECTOR_SIZE)
    /\ a_pc = "idle"
    /\ a_contents = <<>>
    /\ a_staged = <<>>
    /\ a_sealed = <<>>
    /\ a_cache = <<>>
    /\ a_seal = NoSeal
    /\ a_verify = NoVerify
    /\ a_unseal = NoUnseal
    /\ a_ffi = NoFfi
    /\ a_out = CallerOut

\* a store and an empty parameter cache, with a fresh staging and a fresh
\* sealed sector access ("new"), or with paths that name no file ("absent")
ApiStart ==
    /\ a_store \in Stores
    /\ a_pc \in {"new", "absent"}
    /\ a_contents = <<>>
    /\ a_staged = <<>>
    /\ a_sealed = <<>>
    /\ a_cache = <<>>
    /\ a_seal = NoSeal
    /\ a_verify = NoVerify
    /\ a_unseal = NoUnseal
    /\ a_ffi = NoFfi
    /\ a_out = CallerOut

\* write_unsealed(store, access, data)
WriteUnsealed(data) ==
    /\ a_pc = "new"
    /\ \E r \in {write_unsealed(a_staged, data)} :
          /\ a_staged' = r.file
          /\ a_ffi' = [op |-> "write_unsealed", outcome |-> "ok",
                       ret |-> Status(0), value |-> r.result.value]
    /\ a_contents' = a_contents \o data
    /\ a_pc' = "staged"
    /\ UNCHANGED <<a_store, a_sealed, a_cache, a_seal, a_verify, a_unseal,
                   a_out>>
    /\ UNCHANGED notApi

\* seal(store, staged, sealed, prover_id, sector_id)
Seal(prover_id, sector_id, seed, verify_seed) ==
    /\ a_pc \in {"absent", "new", "staged"}
    /\ \E r \in {seal(a_store, a_pc # "absent", a_staged, a_sealed, prover_id,
                      sector_id, a_cache, seed, verify_seed)} :
          /\ a_seal' = [called |-> TRUE, prover_id |-> prover_id,
                        sector_id |-> sector_id, seed |-> seed,
                        verify_seed |-> verify_seed, result |-> r.result,
                        self_verify |-> r.self_verify, data |-> r.data,
                        replica |-> r.replica]
          /\ a_sealed' = r.out_file
          /\ a_cache' = r.cache
          /\ a_pc' = IF r.result.status = "ok" THEN "sealed"
                     ELSE IF r.result.status = "err" THEN "failed"
                     ELSE "aborted"
          /\ a_ffi' = [op |-> "seal", outcome |-> r.result.status,
                       ret |-> api_seal(r.result), value |-> 0]
          /\ a_out' = seal_out(r.result, a_out)
    /\ UNCHANGED <<a_store, a_contents, a_staged, a_verify, a_unseal>>
    /\ UNCHANGED notApi

\* verify_seal on the same store, with what seal returned
VerifySeal(seed) ==
    /\ a_pc = "sealed"
    /\ \E r \in {verify_seal(a_store, a_seal.result.value.comm_r,
                             a_seal.result.value.comm_d, a_seal.prover_id,
                             a_seal.sector_id, a_seal.result.value.proof,
                             a_cache, seed)} :
          /\ a_verify' = [called |-> TRUE, seed |-> seed, result |-> r]
          /\ a_ffi' = [op |-> "verify_seal", outcome |-> Outcome(r),
                       ret |-> api_verify_seal(r), value |-> 0]
    /\ a_pc' = "done"
    /\ UNCHANGED <<a_store, a_contents, a_staged, a_sealed, a_cache, a_seal,
                   a_unseal, a_out>>
    /\ UNCHANGED notApi

\* the commitments a caller may hand verify_seal in place of comm_r: one
\* with its first byte changed, and one that is no field element
Forged(comm) ==
    {[comm EXCEPT ![1] = (@ + 1) % 256], [comm EXCEPT ![32] = 255]}

\* verify_seal on the same store, with a comm_r that seal did not return
VerifySealForged(comm_r, seed) ==
    /\ a_pc = "sealed"
    /\ \E r \in {verify_seal(a_store, comm_r, a_seal.result.value.comm_d,
                             a_seal.prover_id, a_seal.sector_id,
                             a_seal.result.value.proof, a_cache, seed)} :
          a_ffi' = [op |-> "verify_seal", outcome |-> Outcome(r),
                    ret |-> api_verify_seal(r), value |-> 0]
    /\ a_pc' = "done"
    /\ UNCHANGED <<a_store, a_contents, a_staged, a_sealed, a_cache, a_seal,
                   a_verify, a_unseal, a_out>>
    /\ UNCHANGED notApi

\* get_unsealed_range(store, sealed, output, prover_id, sector_id, offset,
\* num_bytes) into a fresh output file; after a seal that found no file,
\* sealed names no file either
GetUnsealedRange(offset, num_bytes, seed) ==
    /\ a_pc \in {"sealed", "failed"}
    /\ a_pc = "sealed" => offset + num_bytes <= Len(a_contents)
    /\ \E r \in {get_unsealed_range(a_store, a_pc = "sealed", a_sealed,
                                    a_seal.prover_id, a_seal.sector_id, offset,
                                    num_bytes, seed)} :
          /\ a_unseal' = [called |-> TRUE, range |-> TRUE, offset |-> offset,
                          num_bytes |-> num_bytes, seed |-> seed,
                          result |-> r.result, out_file |-> r.out_file]
          /\ a_ffi' = [op |-> "get_unsealed_range", outcome |-> r.result.status,
                       ret |-> api_get_unsealed_range(r.result),
                       value |-> IF r.result.status = "ok" THEN r.result.value
                                 ELSE 0]
          /\ a_out' = get_unsealed_range_out(r.result, a_out)
    /\ a_pc' = "done"
    /\ UNCHANGED <<a_store, a_contents, a_staged, a_sealed, a_cache, a_seal,
                   a_verify>>
    /\ UNCHANGED notApi

\* get_unsealed(store, sealed, output, prover_id, sector_id)
GetUnsealed(seed) ==
    /\ a_pc \in {"sealed", "failed"}
    /\ \E r \in {get_unsealed(a_store, a_pc = "sealed", a_sealed,
                              a_seal.prover_id, a_seal.sector_id, seed)} :
          /\ a_unseal' = [called |-> TRUE, range |-> FALSE, offset |-> 0,
                          num_bytes |-> a_store.sector_bytes, seed |-> seed,
                          result |-> r.result,
                          out_file |-> r.out_file]
          /\ a_ffi' = [op |-> "get_unsealed", outcome |-> r.result.status,
                       ret |-> api_get_unsealed_range(r.result), value |-> 0]
    /\ a_pc' = "done"
    /\ UNCHANGED <<a_store, a_contents, a_staged, a_sealed, a_cache, a_seal,
                   a_verify, a_out>>
    /\ UNCHANGED notApi

\* the contents staged: of two patterns, a byte, a frame's worth, and the
\* longest
Contents ==
    {Bytes(pat, len) : pat \in {"count", "mix"}, len \in {1, 32, MaxContents}}

\* the lengths asked for at an offset: a byte, and all that follows it
RangeLens(offset) ==
    {len \in {1, Len(a_contents) - offset} : len >= 1}

ApiNext ==
    \/ \E data \in Contents : WriteUnsealed(data)
    \/ \E prover_id \in Ids : \E seed \in Seeds : \E verify_seed \in Seeds :
          Seal(prover_id, [i \in 1..31 |-> 3], seed, verify_seed)
    \/ \E seed \in Seeds : VerifySeal(seed)
    \/ /\ a_pc = "sealed"
       /\ \E comm_r \in Forged(a_seal.result.value.comm_r) : \E seed \in Seeds :
             VerifySealForged(comm_r, seed)
    \/ \E offset \in {0, MaxRangeOffset} : \E num_bytes \in RangeLens(offset) :
          \E seed \in Seeds : GetUnsealedRange(offset, num_bytes, seed)
    \/ \E seed \in Seeds : GetUnsealed(seed)

\* C1: whenever seal has returned Ok with (comm_r, comm_d, proof), a
\* following verify_seal with them on the same store has returned Ok(true),
\* whatever the store configuration.
C1_EndToEndSoundness ==
    a_verify.called => a_verify.result = Ok(TRUE)

\* C2: seal never returns a proof that its self verification did not find
\* valid: when the verify_seal in seal yields anything but Ok(true), seal
\* aborts instead of returning Ok.
C2_NoNonVerifyingProof ==
    (a_seal.called /\ a_seal.self_verify # NotRun /\ a_seal.self_verify # Ok(TRUE)) =>
        a_seal.result = Panic

\* what an API call handed its caller
Returns(code) == a_ffi.ret.returned /\ a_ffi.ret.status = code

\* C11: seal returns 0 exactly when the internal seal succeeds and 10 when it
\* returns an error; verify_seal returns 0 exactly when verification yields
\* true, 20 exactly when it yields false and 21 exactly when it yields an
\* error; get_unsealed_range returns 0 on success and 30 on an error.
C11_FfiStatusCodes ==
    /\ a_ffi.op = "seal" =>
          /\ Returns(0) <=> a_ffi.outcome = "ok"
          /\ a_ffi.outcome = "err" => Returns(10)
    /\ a_ffi.op = "verify_seal" =>
          /\ Returns(0) <=> a_ffi.outcome = "true"
          /\ Returns(20) <=> a_ffi.outcome = "false"
          /\ Returns(21) <=> a_ffi.outcome = "err"
    /\ a_ffi.op = "get_unsealed_range" =>
          /\ a_ffi.outcome = "ok" => Returns(0)
          /\ a_ffi.outcome = "err" => Returns(30)

\* verify_seal has found a forged commitment false and returned 20
C11_Witness ==
    /\ a_ffi.op = "verify_seal"
    /\ a_ffi.outcome = "false"
    /\ Returns(20)

\* C12: a store whose sector_bytes is not a multiple of lambda = 32 is a fatal
\* configuration error: seal never succeeds with it, fake or real.
C12_OddSectorFatal ==
    (a_seal.called /\ a_store.sector_bytes % Lambda # 0) =>
        a_seal.result.status # "ok"

\* C13 as stated: after a successful seal the sealed file is sector_bytes
\* long when the store is not faking and FAKE_SECTOR_BYTES long when it is.
C13_SealedLengthAsStated ==
    (a_seal.called /\ a_seal.result.status = "ok") =>
        Len(a_sealed) = IF a_store.fake THEN FAKE_SECTOR_BYTES
                        ELSE a_store.sector_bytes

\* C13: after a successful seal the sealed file at out_path is exactly
\* sector_bytes long, whether the store is faking or not.
C13_SealedLength ==
    (a_seal.called /\ a_seal.result.status = "ok") =>
        Len(a_sealed) = a_store.sector_bytes

\* a faking store has sealed, and its sealed file is longer than what it
\* proved
C13_Witness ==
    /\ a_seal.called
    /\ a_seal.result.status = "ok"
    /\ a_store.fake
    /\ Len(a_sealed) = a_store.sector_bytes
    /\ Len(a_sealed) > FAKE_SECTOR_BYTES

\* C16: write_unsealed reports the number of bytes its caller gave it, and
\* the staged file holds what write_padded makes of them.
C16_WriteUnsealedCount ==
    a_ffi.op = "write_unsealed" =>
        /\ a_ffi.value = Len(a_contents)
        /\ a_staged = write_padded(a_contents).out

\* the public parameters a call on the store builds when new_seed() returns
\* seed to its setup_params
ParamsOf(seed) == public_params(get_config(a_store).proof_sector_bytes, seed)

\* C29: the public parameters (node count, degrees, graph seed, sloth
\* iterations, layer count) that seal, the verify_seal inside seal, a later
\* verify_seal and get_unsealed_range have built for the store are identical.
C29_DeterministicParams ==
    /\ (a_seal.called /\ a_seal.self_verify # NotRun) =>
          ParamsOf(a_seal.verify_seed) = ParamsOf(a_seal.seed)
    /\ a_verify.called => ParamsOf(a_verify.seed) = ParamsOf(a_seal.seed)
    /\ (a_unseal.called /\ a_seal.result.status = "ok"
          /\ a_unseal.result.status = "ok") =>
          ParamsOf(a_unseal.seed) = ParamsOf(a_seal.seed)

\* the data seal read from the staged file, zero-padded to the sector size
SectorData ==
    [i \in 1..a_store.sector_bytes |->
        IF i <= Len(a_staged) THEN a_staged[i] ELSE 0]

\* what the layered replicate makes of data with the parameters and the
\* replica_id of the seal call
Replicated(data) ==
    replicate(ParamsOf(a_seal.seed),
              replica_id(pad_safe_fr(a_seal.prover_id),
                         pad_safe_fr(a_seal.sector_id)), data).data

\* C26: when seal has got as far as its proof: when not faking, the
\* buffer is the whole zero-padded data replicated through all layers and
\* out_path holds that buffer; when faking, out_path holds the zero-padded
\* original data, the first proof_sector_bytes of the buffer are replicated
\* and the bytes beyond are unchanged; in both cases the replica handed to
\* the prover is the first proof_sector_bytes of the data as it was before
\* replication.
C26_WriteOrdering ==
    (a_pc \in {"sealed", "aborted"} /\ a_seal.self_verify # NotRun) =>
        /\ a_seal.replica =
              SubSeq(SectorData, 1, get_config(a_store).proof_sector_bytes)
        /\ Len(a_seal.data) = a_store.sector_bytes
        /\ IF a_store.fake
           THEN /\ a_sealed = SectorData
                /\ SubSeq(a_seal.data, 1, FAKE_SECTOR_BYTES) =
                      Replicated(SubSeq(SectorData, 1, FAKE_SECTOR_BYTES))
                /\ SubSeq(a_seal.data, FAKE_SECTOR_BYTES + 1, Len(a_seal.data)) =
                      SubSeq(SectorData, FAKE_SECTOR_BYTES + 1, Len(SectorData))
           ELSE /\ a_seal.data = Replicated(SectorData)
                /\ a_sealed = a_seal.data

\* a fake store sealed with staged contents: the file holds the original
\* data, the buffer's first bytes are replicated
C26_Witness ==
    /\ a_seal.called
    /\ a_seal.result.status = "ok"
    /\ a_store.fake
    /\ a_store.sector_bytes > FAKE_SECTOR_BYTES
    /\ a_contents # <<>>
    /\ a_sealed = SectorData
    /\ a_seal.data # a_sealed

\* C30: a seal that returned a non-zero status has left the caller's
\* comm_r, comm_d and proof buffers as they were, and a get_unsealed_range
\* that returned a non-zero status has left the caller's count as it was;
\* with status 0 seal has overwritten the three buffers with the commitments
\* and the proof of the internal seal, and get_unsealed_range the count with
\* the number of bytes the internal call returned.
C30_OutputsOnSuccess ==
    [][/\ (a_ffi'.op = "seal" /\ a_ffi'.ret # Status(0)) => a_out' = a_out
       /\ (a_ffi'.op = "seal" /\ a_ffi'.ret = Status(0)) =>
             /\ a_out'.comm_r = Written(a_seal'.result.value.comm_r)
             /\ a_out'.comm_d = Written(a_seal'.result.value.comm_d)
             /\ a_out'.proof = Written(a_seal'.result.value.proof)
             /\ a_out'.count = a_out.count
       /\ (a_ffi'.op = "get_unsealed_range" /\ a_ffi'.ret # Status(0)) =>
             a_out' = a_out
       /\ (a_ffi'.op = "get_unsealed_range" /\ a_ffi'.ret = Status(0)) =>
             a_out' = [a_out EXCEPT !.count = Written(a_unseal'.result.value)]
      ]_vars

\* a seal that returned 10 and then a get_unsealed_range that returned 30,
\* with the caller's out-parameters still as they were
C30_Witness ==
    /\ a_seal.called
    /\ a_seal.result = Err
    /\ a_ffi.op = "get_unsealed_range"
    /\ a_ffi.ret = Status(30)
    /\ a_out = CallerOut

\* C4: after contents are staged and sealed, get_unsealed_range(offset, len)
\* with offset + len <= |contents| reports len bytes written and the first
\* len bytes of its output are contents[offset..offset+len], and the first
\* |contents| bytes of the output of get_unsealed are contents.
C4_SealUnsealRoundTrip ==
    (a_unseal.called /\ a_contents # <<>>) =>
        /\ a_unseal.result.status = "ok"
        /\ IF a_unseal.range
           THEN /\ a_unseal.result.value = a_unseal.num_bytes
                /\ Take(a_unseal.out_file, a_unseal.num_bytes)
                      = SubSeq(a_contents, a_unseal.offset + 1,
                               a_unseal.offset + a_unseal.num_bytes)
           ELSE Take(a_unseal.out_file, Len(a_contents)) = a_contents

----------------------------------------------------------------------------
(* Fr32Writer: fr32.rs:72-270.  Bytes are numbers 0..255; the shifts and   *)
(* masks of the code are computed on them.                                 *)

RECURSIVE BitOr(_, _)
BitOr(a, b) ==
    IF a = 0 THEN b
    ELSE IF b = 0 THEN a
    ELSE (IF a % 2 = 1 \/ b % 2 = 1 THEN 1 ELSE 0) + 2 * BitOr(a \div 2, b \div 2)

RECURSIVE BitAnd(_, _)
BitAnd(a, b) ==
    IF a = 0 \/ b = 0 THEN 0
    ELSE (IF a % 2 = 1 /\ b % 2 = 1 THEN 1 ELSE 0) + 2 * BitAnd(a \div 2, b \div 2)

\* u8::wrapping_shl: the shift amount is taken modulo 8, the result is a u8
wrapping_shl(b, k) == (b * (2 ^ (k % 8))) % 256

\* split_byte(byte, pos): <<a, b>>
split_byte(byte, pos) ==
    IF pos = 0 THEN <<0, byte>>
    ELSE LET b == byte \div (2 ^ pos)
             mask_size == 8 - pos
             mask == ((255 \div (2 ^ mask_size)) * (2 ^ mask_size)) % 256
             a == BitAnd(byte, mask) \div (2 ^ mask_size)
         IN  <<a, b>>

\* assemble_bytes: the value of prefix when the loop reaches bytes[i]
\* (1-based), and after the loop for i = Len(bytes) + 1
PrefixAt(prefix, prefix_size, bytes, i) ==
    IF i = 1 \/ prefix_size = 0 THEN prefix
    ELSE bytes[i - 1] \div (2 ^ (8 - prefix_size))

\* assemble_bytes(prefix, prefix_size, bytes, suffix): the 32 bytes of out
assemble_bytes(prefix, prefix_size, bytes, suffix) ==
    [i \in 1..32 |->
        IF i <= Len(bytes)
        THEN IF prefix_size = 0
             THEN (IF i = 1 THEN BitOr(prefix, bytes[1]) ELSE bytes[i])
             ELSE BitOr(PrefixAt(prefix, prefix_size, bytes, i),
                        wrapping_shl(bytes[i], prefix_size))
        ELSE IF i = Len(bytes) + 1
        THEN BitOr(PrefixAt(prefix, prefix_size, bytes, i),
                   wrapping_shl(suffix, prefix_size))
        ELSE 0]

\* Fr32Writer::new
Fr32WriterNew ==
    [inner |-> <<>>, prefix |-> 0, prefix_size |-> 0,
     bits_needed |-> FR_UNPADDED_BITS]

\* process_bytes from the split of the final byte on
ProcessedBytes(self, bytes, bytes_to_consume, incomplete, suffix_size) ==
    The({[remainder |-> split[2],
          remainder_size |-> IF incomplete THEN self.prefix_size
                             ELSE 8 - suffix_size,
          bytes_consumed |-> IF incomplete THEN Len(bytes)
                             ELSE bytes_to_consume + 1,
          out_bytes |-> assemble_bytes(self.prefix, self.prefix_size,
                                       Take(bytes, bytes_to_consume), split[1]),
          more |-> ~incomplete,
          bits_needed |-> IF incomplete THEN self.bits_needed - Len(bytes)
                          ELSE FR_UNPADDED_BITS - (8 - suffix_size)] :
            split \in {split_byte(IF incomplete THEN 0
                                  ELSE bytes[bytes_to_consume + 1], suffix_size)}})

\* Fr32Writer::process_bytes: what it returns, and self.bits_needed afterwards
process_bytes(self, bytes) ==
    The({ProcessedBytes(self, bytes, bytes_to_consume,
                        bytes_to_consume + 1 > Len(bytes),
                        self.bits_needed % 8) :
            bytes_to_consume \in {Min(self.bits_needed \div 8, Len(bytes))}})

RECURSIVE WriteLoop(_, _, _, _)
\* the while loop of Fr32Writer::write: the writer afterwards and the count
\* returned
WriteLoop(self, buf, bytes_written, bytes_remaining) ==
    IF bytes_written >= bytes_remaining
    THEN [writer |-> self,
          count |-> IF bytes_written > Len(buf) THEN bytes_remaining
                    ELSE bytes_written]
    ELSE The({
        IF p.more
        THEN WriteLoop([inner |-> self.inner \o p.out_bytes,
                        prefix |-> p.remainder,
                        prefix_size |-> p.remainder_size,
                        bits_needed |-> p.bits_needed],
                       SubSeq(buf, p.bytes_consumed + 1, Len(buf)),
                       bytes_written + Len(p.out_bytes), bytes_remaining)
        ELSE [writer |-> [inner |-> self.inner \o Take(p.out_bytes, Len(buf)),
                          prefix |-> IF self.prefix_size > 0
                                     THEN p.out_bytes[Len(buf) + 1]
                                     ELSE self.prefix,
                          prefix_size |-> self.prefix_size,
                          bits_needed |-> p.bits_needed],
              count |-> IF bytes_written + Len(buf) > Len(buf)
                        THEN bytes_remaining ELSE bytes_written + Len(buf)] :
        p \in {process_bytes(self, buf)}})

\* Fr32Writer::write(buf)
writer_write(self, buf) == WriteLoop(self, buf, 0, Len(buf))

\* Fr32Writer::finish
writer_finish(self) ==
    IF self.prefix_size > 0
    THEN [writer |-> [self EXCEPT !.inner = Append(@, self.prefix),
                                  !.prefix_size = 0, !.prefix = 0],
          count |-> 1]
    ELSE [writer |-> self, count |-> 0]

\* the input of test_write and test_write_padded_alt
TestVector == Bytes("count", 64) \o <<9, 9, 9, 255>>

\* the most write calls before finish
MaxCalls == 3

\* four frames' worth of input bytes
FourFrames == 128

\* the inputs written: the test vector, a frame's worth of ones, inputs a
\* byte shorter and a byte longer than a frame, and four frames' worth
WriterInputs ==
    {TestVector, Bytes("ones", 32), Bytes("mix", 31), Bytes("mix", 33),
     Bytes("count", FourFrames)}

\* the lengths of a write call: a byte, two, nearly a frame, a frame, the
\* first write of write_test, and all that is left
WriteLens == {1, 2, 31, 32, 66, Len(w_src) - w_pos}

WriterIdle ==
    /\ w_src = <<>>
    /\ w_pos = 0
    /\ w_calls = 0
    /\ w_writer = Fr32WriterNew
    /\ w_pc = "idle"
    /\ w_fin = <<>>

\* Fr32Writer::new(&mut data) and the bytes to write
WriterStart ==
    /\ w_src \in WriterInputs
    /\ w_pos = 0
    /\ w_calls = 0
    /\ w_writer = Fr32WriterNew
    /\ w_pc = "open"
    /\ w_fin = <<>>

\* writer.write(buf) with the next len bytes of the input
WriterWrite(len) ==
    /\ w_pc = "open"
    /\ w_calls < MaxCalls
    /\ len >= 1
    /\ w_pos + len <= Len(w_src)
    /\ w_writer' = writer_write(w_writer, SubSeq(w_src, w_pos + 1, w_pos + len)).writer
    /\ w_pos' = w_pos + len
    /\ w_calls' = w_calls + 1
    /\ UNCHANGED <<w_src, w_pc, w_fin>>
    /\ UNCHANGED notWriter

\* what a finish call did: prefix_size before it, the count it returned and
\* the number of bytes it emitted to the sink
FinishCall(self, r) ==
    [prefix_size |-> self.prefix_size, count |-> r.count,
     emitted |-> Len(r.writer.inner) - Len(self.inner)]

\* writer.finish()
WriterFinish ==
    /\ w_pc = "open"
    /\ w_writer' = writer_finish(w_writer).writer
    /\ w_fin' = Append(w_fin, FinishCall(w_writer, writer_finish(w_writer)))
    /\ w_pc' = "finished"
    /\ UNCHANGED <<w_src, w_pos, w_calls>>
    /\ UNCHANGED notWriter

\* writer.finish() a second time
WriterFinishAgain ==
    /\ w_pc = "finished"
    /\ w_writer' = writer_finish(w_writer).writer
    /\ w_fin' = Append(w_fin, FinishCall(w_writer, writer_finish(w_writer)))
    /\ w_pc' = "closed"
    /\ UNCHANGED <<w_src, w_pos, w_calls>>
    /\ UNCHANGED notWriter

WriterNext ==
    \/ \E len \in WriteLens : WriterWrite(len)
    \/ WriterFinish
    \/ WriterFinishAgain

\* the sink after a single write of the whole input and finish
SingleWrite(source) ==
    writer_finish(writer_write(Fr32WriterNew, source).writer).writer.inner

\* C17: for any input and any way of splitting it across successive write
\* calls followed by finish, the bytes in the sink are those of a single
\* write of the whole input followed by finish, and are the leading bytes of
\* what write_padded emits for the input.
C17_PrefixContinuation ==
    (w_pc = "finished" /\ w_pos = Len(w_src)) =>
        /\ w_writer.inner = SingleWrite(w_src)
        /\ w_writer.inner = Take(write_padded(w_src).out, Len(w_writer.inner))

\* C24: after any sequence of write calls the writer holds a residual prefix
\* of at most 7 bits; finish has emitted one byte (and returned 1) exactly
\* when prefix_size was > 0, and nothing (returning 0) otherwise; after
\* finish prefix and prefix_size are 0; a second finish has emitted nothing
\* and returned 0.
C24_ResidualPrefix ==
    /\ w_writer.prefix_size <= 7
    /\ \A i \in DOMAIN w_fin :
          /\ w_fin[i].emitted = (IF w_fin[i].prefix_size > 0 THEN 1 ELSE 0)
          /\ w_fin[i].count = w_fin[i].emitted
    /\ w_pc \in {"finished", "closed"} =>
          w_writer.prefix = 0 /\ w_writer.prefix_size = 0
    /\ Len(w_fin) = 2 => w_fin[2].count = 0 /\ w_fin[2].emitted = 0

----------------------------------------------------------------------------
(* Challenge derivation: derive_challenges as seal and verify_seal call it *)

\* the commitments range over the digests 0..MaxDigest
MaxDigest == 4

\* the valid sector sizes: 1, 2, 4 and 6 nodes of Lambda bytes
SectorSizes == {Lambda, 2 * Lambda, REAL_SECTOR_SIZE, LargeSectorBytes}

NoChallenges == [derived |-> FALSE]

ChallIdle ==
    /\ d_in = [comm_r |-> 0, comm_d |-> 0, sector_bytes |-> 0]
    /\ d_out = [seal |-> NoChallenges, verify_seal |-> NoChallenges]

\* a sector of a valid size with its two commitments
ChallStart ==
    /\ d_in \in [comm_r : 0..MaxDigest, comm_d : 0..MaxDigest,
                  sector_bytes : SectorSizes]
    /\ d_out = [seal |-> NoChallenges, verify_seal |-> NoChallenges]

\* seal: the challenges from the commitments of public_tau
SealDerives ==
    /\ ~d_out.seal.derived
    /\ d_out' = [d_out EXCEPT !.seal =
                    [derived |-> TRUE,
                     challenges |-> derive_challenges(
                         fr_into_bytes(DomainFr(d_in.comm_r)),
                         fr_into_bytes(DomainFr(d_in.comm_d)))]]
    /\ UNCHANGED d_in
    /\ UNCHANGED notChall

\* verify_seal: the challenges from the commitments its caller passes
VerifySealDerives ==
    /\ ~d_out.verify_seal.derived
    /\ d_out' = [d_out EXCEPT !.verify_seal =
                    [derived |-> TRUE,
                     challenges |-> derive_challenges(
                         commitment_from_fr(DomainFr(d_in.comm_r)),
                         commitment_from_fr(DomainFr(d_in.comm_d)))]]
    /\ UNCHANGED d_in
    /\ UNCHANGED notChall

ChallNext == SealDerives \/ VerifySealDerives

\* the challenges are node indices of a sector of n nodes
InRange(derivation, n) ==
    derivation.derived =>
        \A i \in 1..Len(derivation.challenges) :
            derivation.challenges[i] \in 0..(n - 1)

\* C15: seal and verify_seal derive the same challenges from the same
\* commitments, and every challenge is a node index in [0, n), where
\* n = proof_sector_bytes / lambda, for every valid sector size.
C15_Challenges ==
    /\ (d_out.seal.derived /\ d_out.verify_seal.derived) =>
          d_out.seal.challenges = d_out.verify_seal.challenges
    /\ InRange(d_out.seal, d_in.sector_bytes \div Lambda)
    /\ InRange(d_out.verify_seal, d_in.sector_bytes \div Lambda)

----------------------------------------------------------------------------
(* Threads calling expanded_parents on graphs that share one parents cache *)
(* (a graph, its clones and its zigzag counterparts).  A call takes the    *)
(* read lock for read_parents_cache and, after a miss, the write lock for  *)
(* write_parents_cache; between the two it holds no lock.                  *)

DEFAULT_EXPANSION_DEGREE == 8

\* the threads
NumThreads == 2

\* the node count of the small graph, all of whose nodes are asked for
SmallGraphNodes == 3

\* a node count above the cache budget of a graph of DEFAULT_EXPANSION_DEGREE:
\* (MAX_CACHE_SIZE << 20) / 2 / (8 * 8) = 81920 entries
LargeGraphNodes == 81922

Threads == 1..NumThreads

NoThreadCall == [pc |-> "idle", called |-> FALSE]

ThreadsIdle ==
    /\ t_graph = ZigZagGraphNew(1, 1, 1, 0)
    /\ t_cache = NewParentsCache
    /\ t_thr = [th \in Threads |-> NoThreadCall]

\* ZigZagBucketGraph::new_zigzag, handed to the threads
ThreadsStart ==
    /\ t_graph \in {ZigZagGraphNew(SmallGraphNodes, 1, MaxExpansionDegree, 0),
                     ZigZagGraphNew(LargeGraphNodes, 1, DEFAULT_EXPANSION_DEGREE, 0)}
    /\ t_cache = NewParentsCache
    /\ t_thr = [th \in Threads |-> NoThreadCall]

\* the nodes the threads ask for: all of a small graph, and of a large one
\* those around cache_entries
ProbeNodes ==
    IF size(t_graph) <= SmallGraphNodes THEN 0..(size(t_graph) - 1)
    ELSE {n \in {t_graph.cache_entries - 1, t_graph.cache_entries,
                 t_graph.cache_entries + 1} : n < size(t_graph)}

\* the graph object of a thread: a clone (reversed = FALSE) or a zigzag
ThreadGraph(reversed) == [t_graph EXCEPT !.reversed = reversed]

\* expanded_parents up to the end of read_parents_cache: a hit returns, a
\* miss goes on to compute the parents
EnterExpandedParents(th, reversed, node) ==
    /\ t_thr[th].pc = "idle"
    /\ \E cached \in {read_parents_cache(ThreadGraph(reversed), t_cache, node)} :
          t_thr' = [t_thr EXCEPT ![th] =
              IF cached.some
              THEN [pc |-> "idle", called |-> TRUE, reversed |-> reversed,
                    node |-> node, parents |-> cached.value, hit |-> TRUE,
                    wrote |-> FALSE, asserted |-> TRUE]
              ELSE [pc |-> "missed", called |-> TRUE, reversed |-> reversed,
                    node |-> node,
                    parents |-> FilterCorrespondents(ThreadGraph(reversed), node, 0),
                    hit |-> FALSE, wrote |-> FALSE, asserted |-> TRUE]]
    /\ UNCHANGED <<t_graph, t_cache>>
    /\ UNCHANGED notThreads

\* expanded_parents from write_parents_cache on: the parents computed are
\* inserted, the assertion on the old value is evaluated, the call returns
LeaveExpandedParents(th) ==
    /\ t_thr[th].pc = "missed"
    /\ \E w \in {write_parents_cache(ThreadGraph(t_thr[th].reversed), t_cache,
                                      t_thr[th].node, t_thr[th].parents)} :
          /\ t_cache' = w.cache
          /\ t_thr' = [t_thr EXCEPT ![th].pc = "idle",
                                    ![th].wrote = (w.cache # t_cache),
                                    ![th].asserted = w.asserted]
    /\ UNCHANGED t_graph
    /\ UNCHANGED notThreads

ThreadsNext ==
    \/ \E th \in Threads : \E reversed \in BOOLEAN : \E node \in ProbeNodes :
          EnterExpandedParents(th, reversed, node)
    \/ \E th \in Threads : LeaveExpandedParents(th)

\* C18: each direction's cache holds only keys strictly below cache_entries,
\* hence at most cache_entries entries, and a call of expanded_parents with
\* node >= cache_entries has neither been answered from the cache nor
\* written to it.
C18_CacheBound ==
    /\ \A idx \in 1..2 :
          /\ \A key \in DOMAIN t_cache[idx] : key < t_graph.cache_entries
          /\ Cardinality(DOMAIN t_cache[idx]) <= t_graph.cache_entries
    /\ \A th \in Threads :
          (t_thr[th].called /\ t_thr[th].node >= t_graph.cache_entries) =>
              ~t_thr[th].hit /\ ~t_thr[th].wrote

\* C19: for any interleaving of expanded_parents calls by several threads on
\* graphs that share one parents cache, every cache write has found its
\* (direction, node) key absent: the assertion of write_parents_cache has
\* not failed.
C19_WriteOnce ==
    \A th \in Threads : t_thr[th].called => t_thr[th].asserted

----------------------------------------------------------------------------
(* The parameter cache file of one effective sector size, with seal calls  *)
(* writing it (write_params_to_cache) and verify_seal calls reading it     *)
(* (read_cached_params) concurrently.  parameter_cache is not among the    *)
(* sources: the writer holds an exclusive file lock for the whole write,   *)
(* readers share the lock.  A key is written as KeyChunks chunks; sealer w *)
(* writes the key w.                                                       *)

NumSealers == 2

NumVerifiers == 2

KeyChunks == 2

Sealers == 1..NumSealers

Verifiers == (NumSealers + 1)..(NumSealers + NumVerifiers)

NoLock == [writer |-> 0, readers |-> {}]

\* the exclusive lock of the writer, were it not taken
lock_exclusive_not_taken(lock, w) == lock

\* the file lock taken exclusively by w
lock_exclusive(lock, w) == [lock EXCEPT !.writer = w]

\* the file lock shared by the reader r
lock_shared(lock, r) == [lock EXCEPT !.readers = @ \cup {r}]

\* the file lock released by p
unlock(lock, p) ==
    [writer |-> IF lock.writer = p THEN 0 ELSE lock.writer,
     readers |-> lock.readers \ {p}]

\* the chunks of a file after chunk is written at position n + 1
PutAt(chunks, n, chunk) ==
    [i \in 1..Max(Len(chunks), n + 1) |-> IF i = n + 1 THEN chunk ELSE chunks[i]]

\* what a reader makes of the chunks it read: a whole key, or a torn file
Parsed(buf) ==
    IF Len(buf) = KeyChunks /\ \A i \in 1..Len(buf) : buf[i] = buf[1]
    THEN [status |-> "ok", key |-> buf[1]]
    ELSE [status |-> "torn"]

ParamsIdle ==
    /\ k_file = [exists |-> FALSE, chunks |-> <<>>]
    /\ k_lock = NoLock
    /\ k_proc = <<>>

\* no cache file yet; every seal and verify_seal about to reach the cache
ParamsStart ==
    /\ k_file = [exists |-> FALSE, chunks |-> <<>>]
    /\ k_lock = NoLock
    /\ k_proc = [p \in Sealers \cup Verifiers |-> [pc |-> "idle", n |-> 0, buf |-> <<>>]]

\* write_params_to_cache in seal: the lock is taken exclusively and the
\* file created or truncated
BeginWrite(w) ==
    /\ k_proc[w].pc = "idle"
    /\ k_lock = NoLock
    /\ k_lock' = lock_exclusive(k_lock, w)
    /\ k_file' = [exists |-> TRUE, chunks |-> <<>>]
    /\ k_proc' = [k_proc EXCEPT ![w].pc = "writing"]
    /\ UNCHANGED notParams

\* write_params_to_cache: the next chunk of the key
PutChunk(w) ==
    /\ k_proc[w].pc = "writing"
    /\ k_proc[w].n < KeyChunks
    /\ k_file' = [k_file EXCEPT !.chunks = PutAt(@, k_proc[w].n, w)]
    /\ k_proc' = [k_proc EXCEPT ![w].n = @ + 1]
    /\ UNCHANGED k_lock
    /\ UNCHANGED notParams

\* write_params_to_cache: the key is written, the lock released
EndWrite(w) ==
    /\ k_proc[w].pc = "writing"
    /\ k_proc[w].n = KeyChunks
    /\ k_lock' = unlock(k_lock, w)
    /\ k_proc' = [k_proc EXCEPT ![w].pc = "done"]
    /\ UNCHANGED k_file
    /\ UNCHANGED notParams

\* read_cached_params in verify_seal: an error when there is no file, else
\* the lock is shared
BeginRead(r) ==
    /\ k_proc[r].pc = "idle"
    /\ IF k_file.exists
       THEN /\ k_lock.writer = 0
            /\ k_lock' = lock_shared(k_lock, r)
            /\ k_proc' = [k_proc EXCEPT ![r].pc = "reading"]
       ELSE /\ k_proc' = [k_proc EXCEPT ![r].pc = "done", ![r].buf = <<>>,
                                        ![r].n = 0]
            /\ UNCHANGED k_lock
    /\ UNCHANGED k_file
    /\ UNCHANGED notParams

\* read_cached_params: the next chunk of the file
GetChunk(r) ==
    /\ k_proc[r].pc = "reading"
    /\ Len(k_proc[r].buf) < Len(k_file.chunks)
    /\ k_proc' = [k_proc EXCEPT ![r].buf = Append(@, k_file.chunks[Len(@) + 1])]
    /\ UNCHANGED <<k_file, k_lock>>
    /\ UNCHANGED notParams

\* read_cached_params: the end of the file is met, the lock released and
\* what was read is parsed
EndRead(r) ==
    /\ k_proc[r].pc = "reading"
    /\ Len(k_proc[r].buf) >= Len(k_file.chunks)
    /\ k_lock' = unlock(k_lock, r)
    /\ k_proc' = [k_proc EXCEPT ![r].pc = "done", ![r].n = 1]
    /\ UNCHANGED k_file
    /\ UNCHANGED notParams

ParamsNext ==
    \/ \E w \in Sealers : BeginWrite(w) \/ PutChunk(w) \/ EndWrite(w)
    \/ \E r \in Verifiers : BeginRead(r) \/ GetChunk(r) \/ EndRead(r)

----------------------------------------------------------------------------
(* Layered proofs: one sector replicated and proved, and proofs verified   *)

\* the graphs of the proved sectors have 2..MaxProofNodes nodes
MaxProofNodes == 3

NoProof == LayeredProof(<<>>, <<>>)

NoVerifyCall == [called |-> FALSE]

ProofsIdle ==
    /\ p_pp = LayeredPublicParams(DrgPublicParams(ZigZagGraphNew(1, 1, 1, 0), 1, 0), 1)
    /\ p_in = [replica_id |-> <<>>, data |-> <<>>, challenges |-> <<>>]
    /\ p_pc = "idle"
    /\ p_rep = NoRep
    /\ p_proof = NoProof
    /\ p_ver = NoVerifyCall
    /\ p_again = NoVerifyCall

\* ZigZagDrgPoRep::setup, and the sector, replica_id and challenge (a node
\* other than the first) of the caller
ProofsStart ==
    /\ p_pp \in {LayeredPublicParams(
                    DrgPublicParams(ZigZagGraphNew(n, 1, e, sd), lambda, MaxSlothIter),
                    layers) :
                    n \in 2..MaxProofNodes, e \in 1..MaxExpansionDegree,
                    sd \in Seeds, lambda \in 1..MaxLambda, layers \in 1..MaxLayers}
    /\ p_in \in {[replica_id |-> [fr |-> rid],
                  data |-> Bytes(pat, size(p_pp.drg_porep_public_params.graph)
                                        * p_pp.drg_porep_public_params.lambda),
                  challenges |-> <<c>>] :
                    rid \in ReplicaIds, pat \in {"count", "mix"},
                    c \in 1..(size(p_pp.drg_porep_public_params.graph) - 1)}
    /\ p_pc = "new"
    /\ p_rep = NoRep
    /\ p_proof = NoProof
    /\ p_ver = NoVerifyCall
    /\ p_again = NoVerifyCall

\* ZigZagDrgPoRep::replicate(&pp, &replica_id, &mut data)
ProofsReplicate ==
    /\ p_pc = "new"
    /\ p_rep' = replicate(p_pp, fr_into_bytes(p_in.replica_id), p_in.data)
    /\ p_pc' = "replicated"
    /\ UNCHANGED <<p_pp, p_in, p_proof, p_ver, p_again>>
    /\ UNCHANGED notProofs

\* ZigZagDrgPoRep::prove with the taus and auxs of replicate and the data
\* as it was before replicate, as seal calls it
Prove ==
    /\ p_pc = "replicated"
    /\ p_proof' = prove(p_pp,
                        PublicInputs(p_in.replica_id, p_in.challenges,
                                     Some(simplify_tau(p_rep.taus))),
                        [replica |-> p_in.data, aux |-> p_rep.auxs,
                         tau |-> p_rep.taus])
    /\ p_pc' = "proved"
    /\ UNCHANGED <<p_pp, p_in, p_rep, p_ver, p_again>>
    /\ UNCHANGED notProofs

\* the opening with the first byte of its slot changed
Tampered(opening) ==
    [opening EXCEPT !.data = [@ EXCEPT ![1] = (@ + 1) % 256]]

\* the proofs a verifier may be handed: the prover's, and that with an
\* encoding proof or a tau dropped or added, or with one layer's replica
\* opening tampered with
Proofs(proof) ==
    {proof,
     [proof EXCEPT !.encoding_proofs = SubSeq(@, 1, Len(@) - 1)],
     [proof EXCEPT !.encoding_proofs = Append(@, @[Len(@)])],
     [proof EXCEPT !.tau = SubSeq(@, 1, Len(@) - 1)],
     [proof EXCEPT !.tau = Append(@, @[Len(@)])]}
    \cup {[proof EXCEPT !.encoding_proofs[k].replica_nodes[1] = Tampered(@)] :
             k \in DOMAIN proof.encoding_proofs}

\* the public taus a verifier may hold: the one of the sector, and that with
\* another comm_r or another comm_d
PublicTaus(tau) ==
    {tau, Tau(tau.comm_r + 1, tau.comm_d), Tau(tau.comm_r, tau.comm_d + 1)}

\* the call ZigZagDrgPoRep::verify(&pp, &pub_inputs, &proof) and its result
VerifyCall(proof, tau) ==
    [called |-> TRUE, proof |-> proof, tau |-> tau,
     result |-> verify(p_pp,
                       PublicInputs(p_in.replica_id, p_in.challenges, Some(tau)),
                       proof)]

\* ZigZagDrgPoRep::verify
Verify(proof, tau) ==
    /\ p_pc = "proved"
    /\ p_ver' = VerifyCall(proof, tau)
    /\ p_pc' = "verified"
    /\ UNCHANGED <<p_pp, p_in, p_rep, p_proof, p_again>>
    /\ UNCHANGED notProofs

\* ZigZagDrgPoRep::verify once more, of the same proof
VerifyAgain(tau) ==
    /\ p_pc = "verified"
    /\ p_again' = VerifyCall(p_ver.proof, tau)
    /\ p_pc' = "done"
    /\ UNCHANGED <<p_pp, p_in, p_rep, p_proof, p_ver>>
    /\ UNCHANGED notProofs

ProofsNext ==
    \/ ProofsReplicate
    \/ Prove
    \/ /\ p_pc = "proved"
       /\ \E proof \in Proofs(p_proof),
             tau \in PublicTaus(simplify_tau(p_rep.taus)) : Verify(proof, tau)
    \/ /\ p_pc = "verified"
       /\ \E tau \in PublicTaus(simplify_tau(p_rep.taus)) : VerifyAgain(tau)

\* the single-layer parameters of layer k (from 1): the graph of the
\* parameters for the odd layers, its ZigZag counterpart for the even ones
LayerParams(pp, k) ==
    IF k % 2 = 1 THEN pp.drg_porep_public_params
    ELSE transform(pp.drg_porep_public_params, k - 2, pp.layers)

\* whether the encoding proof of layer k verifies under the graph of layer k
\* and the tau of that layer
SubProofOk(proof, k) ==
    drg_verify(LayerParams(p_pp, k),
               PublicInputs(p_in.replica_id, p_in.challenges, Some(proof.tau[k])),
               proof.encoding_proofs[k])

\* C21: layered verify has returned false, and has not panicked, whenever
\* the proof has not L encoding proofs or not L taus, and whenever some
\* layer's sub-proof fails under that layer's graph direction; it has
\* returned true only if all L sub-proofs verify.
C21_VerifyRejects ==
    p_ver.called =>
        /\ p_ver.result # "panic"
        /\ (Len(p_ver.proof.encoding_proofs) # p_pp.layers
              \/ Len(p_ver.proof.tau) # p_pp.layers) => p_ver.result = "false"
        /\ (Len(p_ver.proof.encoding_proofs) = p_pp.layers
              /\ Len(p_ver.proof.tau) = p_pp.layers) =>
              (p_ver.result = "true"
                  <=> \A k \in 1..p_pp.layers : SubProofOk(p_ver.proof, k))

\* C22: layered prove has produced exactly L encoding proofs (so the proof
\* passes the length check of verify), and the k-th is what the single-layer
\* prover makes of the replica after layers 0..k of replication with
\* tau[k], aux[k] and the graph direction replicate used for layer k.
C22_ProveLayers ==
    p_pc \in {"proved", "verified", "done"} =>
        /\ Len(p_proof.encoding_proofs) = p_pp.layers
        /\ p_proof.tau = p_rep.taus
        /\ \A k \in 1..p_pp.layers :
              p_proof.encoding_proofs[k] =
                  drg_prove([p_pp.drg_porep_public_params
                                EXCEPT !.graph.reversed = p_rep.directions[k]],
                            PublicInputs(p_in.replica_id, p_in.challenges,
                                         Some(p_rep.taus[k])),
                            [replica |-> p_rep.auxs[k].tree_r,
                             aux |-> p_rep.auxs[k]])

\* a sector of three layers proved, its second layer on the reversed graph
C22_Witness ==
    /\ p_pc = "proved"
    /\ p_pp.layers = 3
    /\ Len(p_proof.encoding_proofs) = 3
    /\ p_rep.directions = <<FALSE, TRUE, FALSE>>
    /\ p_proof.encoding_proofs[2] # p_proof.encoding_proofs[1]

\* C28: when layered verify has accepted a proof under the public tau T, a
\* verify of the same proof with the same parameters under a public tau
\* other than T (another comm_r or another comm_d) has returned false.
C28_BoundToCommitments ==
    (p_again.called /\ p_ver.result = "true" /\ p_again.tau # p_ver.tau) =>
        p_again.result = "false"

----------------------------------------------------------------------------
(* Seals of several sectors on one store, and the parameter cache          *)

\* the most seal calls on the store
MaxSeals == 3

ResealIdle ==
    /\ s_store = RealConfig(REAL_SECTOR_SIZE)
    /\ s_cache = <<>>
    /\ s_seals = <<>>
    /\ s_writes = 0
    /\ s_verify = NoVerify
    /\ s_pc = "idle"

\* a store (the real and the fake one of effective sector size
\* REAL_SECTOR_SIZE = FAKE_SECTOR_BYTES, or a larger real one) and an empty
\* parameter cache
ResealStart ==
    /\ s_store \in {RealConfig(REAL_SECTOR_SIZE),
                    FakeConfig(FAST_SECTOR_SIZE, FAST_DELAY_SECONDS),
                    RealConfig(LargeSectorBytes)}
    /\ s_cache = <<>>
    /\ s_seals = <<>>
    /\ s_writes = 0
    /\ s_verify = NoVerify
    /\ s_pc = "open"

\* seal of one more sector of the store (staged contents, fresh sealed
\* access): write_params_to_cache is called once whenever seal gets as far
\* as its proof
SealSector(contents, seed, verify_seed) ==
    /\ s_pc = "open"
    /\ Len(s_seals) < MaxSeals
    /\ \E r \in {seal(s_store, TRUE, write_unsealed(<<>>, contents).file, <<>>,
                      [i \in 1..31 |-> 1], [i \in 1..31 |-> 3], s_cache, seed,
                      verify_seed)} :
          /\ s_seals' = Append(s_seals, [seed |-> seed, result |-> r.result])
          /\ s_cache' = r.cache
          /\ s_writes' = s_writes + (IF r.self_verify # NotRun THEN 1 ELSE 0)
    /\ UNCHANGED <<s_store, s_verify, s_pc>>
    /\ UNCHANGED notReseal

\* verify_seal of what the k-th seal returned, after later seals
VerifyEarlier(k, seed) ==
    /\ s_pc = "open"
    /\ k < Len(s_seals)
    /\ s_seals[k].result.status = "ok"
    /\ s_verify' = [called |-> TRUE, seal |-> k, seed |-> seed,
                    result |-> verify_seal(s_store,
                                   s_seals[k].result.value.comm_r,
                                   s_seals[k].result.value.comm_d,
                                   [i \in 1..31 |-> 1], [i \in 1..31 |-> 3],
                                   s_seals[k].result.value.proof, s_cache, seed)]
    /\ s_pc' = "done"
    /\ UNCHANGED <<s_store, s_cache, s_seals, s_writes>>
    /\ UNCHANGED notReseal

ResealNext ==
    \/ \E seed \in Seeds : \E verify_seed \in Seeds :
          SealSector(Bytes("count", 1), seed, verify_seed)
    \/ \E k \in 1..(MaxSeals - 1) : \E seed \in Seeds : VerifyEarlier(k, seed)

\* C23: the key of an effective sector size has been written to the cache
\* on first use only (the later seals have only read it), and every proof an
\* earlier seal returned has been accepted by a verify_seal that followed
\* later seals on the store.
C23_CacheStability ==
    /\ s_writes <= 1
    /\ s_verify.called => s_verify.result = Ok(TRUE)

----------------------------------------------------------------------------
(* write_data (internal.rs:279-285) step by step: File::create, write_all  *)
(* into the BufWriter, and the writes of the buffered bytes to the file    *)
(* when the BufWriter is dropped; the process may stop in between.         *)

\* the length of the data written: a sector of the smallest store
DataBytes == 128

\* a file that does not exist
NoFile == [exists |-> FALSE, bytes |-> <<>>]

\* a file with these bytes
FileOf(bytes) == [exists |-> TRUE, bytes |-> bytes]

FileIdle ==
    /\ f_before = NoFile
    /\ f_data = <<>>
    /\ f_file = NoFile
    /\ f_pending = <<>>
    /\ f_pc = "idle"

\* seal about to call write_data(out_path, data): out_path names no file,
\* the empty file of a fresh sealed sector access, or a file sealed before
WriteDataStart ==
    /\ f_before \in {NoFile, FileOf(<<>>), FileOf(Bytes("ones", DataBytes))}
    /\ f_data \in {Bytes(pat, len) : pat \in {"count", "mix"},
                                     len \in {Lambda, DataBytes}}
    /\ f_file = f_before
    /\ f_pending = <<>>
    /\ f_pc = "called"

\* File::create(out_path): the file is created, or truncated if it exists
FileCreate ==
    /\ f_pc = "called"
    /\ f_file' = FileOf(<<>>)
    /\ f_pc' = "created"
    /\ UNCHANGED <<f_before, f_data, f_pending>>
    /\ UNCHANGED notFile

\* buf_writer.write_all(&data): data shorter than the buffer stays in it
BufWriteAll ==
    /\ f_pc = "created"
    /\ f_pending' = f_data
    /\ f_pc' = "buffered"
    /\ UNCHANGED <<f_before, f_data, f_file>>
    /\ UNCHANGED notFile

\* the drop of the BufWriter at the end of write_data: one write of the
\* file, which takes n of the pending bytes, until none is left
FlushBuf(n) ==
    /\ f_pc = "buffered"
    /\ n \in 1..Len(f_pending)
    /\ f_file' = FileOf(f_file.bytes \o SubSeq(f_pending, 1, n))
    /\ f_pending' = SubSeq(f_pending, n + 1, Len(f_pending))
    /\ f_pc' = IF n = Len(f_pending) THEN "returned" ELSE "buffered"
    /\ UNCHANGED <<f_before, f_data>>
    /\ UNCHANGED notFile

\* the process stops inside write_data: what is in the BufWriter is lost
ProcessStops ==
    /\ f_pc \in {"created", "buffered"}
    /\ f_pending' = <<>>
    /\ f_pc' = "stopped"
    /\ UNCHANGED <<f_before, f_data, f_file>>
    /\ UNCHANGED notFile

FileNext ==
    \/ FileCreate
    \/ BufWriteAll
    \/ \E n \in {1, Lambda, Len(f_pending)} : FlushBuf(n)
    \/ ProcessStops

\* C25: at every point during and after the write of the sealed sector
\* file, also when the process has stopped inside it, out_path does not
\* exist or is unchanged, or holds the complete contents: never an empty
\* file or a truncated prefix in place of them.
C25_AtomicWrite ==
    f_pc # "idle" => (f_file = f_before \/ f_file = FileOf(f_data))

----------------------------------------------------------------------------
(* Specifications                                                          *)

MoreIdle ==
    /\ ChallIdle /\ ThreadsIdle /\ ParamsIdle /\ WriterIdle /\ ProofsIdle
    /\ ResealIdle /\ FileIdle

CodecInit == CodecStart /\ GraphIdle /\ LayersIdle /\ ApiIdle /\ MoreIdle

SpecCodec == CodecInit /\ [][CodecNext]_vars

GraphInit == GraphStart /\ CodecIdle /\ LayersIdle /\ ApiIdle /\ MoreIdle

SpecGraph == GraphInit /\ [][GraphNext]_vars

LayersInit == LayersStart /\ CodecIdle /\ GraphIdle /\ ApiIdle /\ MoreIdle

SpecLayers == LayersInit /\ [][LayersNext]_vars

TausInit == TausStart /\ CodecIdle /\ GraphIdle /\ ApiIdle /\ MoreIdle

SpecTaus == TausInit /\ [][TausNext]_vars

Init == ApiStart /\ CodecIdle /\ GraphIdle /\ LayersIdle /\ MoreIdle

Next == ApiNext

Spec == Init /\ [][Next]_vars

OldIdle == CodecIdle /\ GraphIdle /\ LayersIdle /\ ApiIdle

ChallInit ==
    /\ ChallStart /\ OldIdle /\ ThreadsIdle /\ ParamsIdle /\ WriterIdle /\ ProofsIdle
    /\ ResealIdle /\ FileIdle

SpecChallenges == ChallInit /\ [][ChallNext]_vars

ThreadsInit ==
    /\ ThreadsStart /\ OldIdle /\ ChallIdle /\ ParamsIdle /\ WriterIdle /\ ProofsIdle
    /\ ResealIdle /\ FileIdle

SpecThreads == ThreadsInit /\ [][ThreadsNext]_vars

ParamsInit ==
    /\ ParamsStart /\ OldIdle /\ ChallIdle /\ ThreadsIdle /\ WriterIdle /\ ProofsIdle
    /\ ResealIdle /\ FileIdle

SpecParams == ParamsInit /\ [][ParamsNext]_vars

WriterInit ==
    /\ WriterStart /\ OldIdle /\ ChallIdle /\ ThreadsIdle /\ ParamsIdle /\ ProofsIdle
    /\ ResealIdle /\ FileIdle

SpecWriter == WriterInit /\ [][WriterNext]_vars

ProofsInit ==
    /\ ProofsStart /\ OldIdle /\ ChallIdle /\ ThreadsIdle /\ ParamsIdle /\ WriterIdle
    /\ ResealIdle /\ FileIdle

SpecProofs == ProofsInit /\ [][ProofsNext]_vars

ResealInit ==
    /\ ResealStart /\ OldIdle /\ ChallIdle /\ ThreadsIdle /\ ParamsIdle
    /\ WriterIdle /\ ProofsIdle /\ FileIdle

SpecReseal == ResealInit /\ [][ResealNext]_vars

FileInit ==
    /\ WriteDataStart /\ OldIdle /\ ChallIdle /\ ThreadsIdle /\ ParamsIdle
    /\ WriterIdle /\ ProofsIdle /\ ResealIdle

SpecWriteData == FileInit /\ [][FileNext]_vars

====
